---- MODULE Spec2Model ----
(***************************************************************************)
(* Sparse attention dispatch of layers/common_attention.py: the gating     *)
(* functions, the capacity-bounded dispatch of queries and keys into       *)
(* buckets, the per-bucket attention bias and the combine step.            *)
(*                                                                         *)
(* Tensors are functions over 0-based index ranges, as in the source.      *)
(* A token batch of length n is the n x n identity matrix (token i is the  *)
(* i-th unit vector): dispatch, the bias-weighted sum and combine are      *)
(* linear in the batch, so what they do to the unit vectors is what they   *)
(* do to every batch.                                                      *)
(***************************************************************************)
EXTENDS Integers, Sequences, FiniteSets, TLC

\* ---------------------------------------------------------------- bounds
\* LSH-routed paths: length * nb_hyperplanes is at most MaxRouting;
\* grouped path: length_kv * num_groups is at most MaxRouting
MaxRouting == 4
\* longest query sequence given to grouped_attention_multihead
MaxLenG == 3
\* largest num_groups given to grouped_attention_multihead
MaxGroups == 2

\* ------------------------------------------------------------- constants
\* the magnitude 1e9 of the bias of a masked position
Big == 1000000000

None == "None"

\* ------------------------------------------------------------- tensor helpers
Range0(n) == 0 .. (n - 1)

Min(a, b) == IF a <= b THEN a ELSE b

Max(a, b) == IF a >= b THEN a ELSE b

RECURSIVE SumFn(_, _)
\* the sum of f over the finite set S of its domain (tf.reduce_sum)
SumFn(f, S) ==
  IF S = {} THEN 0
  ELSE LET x == CHOOSE y \in S : TRUE
       IN f[x] + SumFn(f, S \ {x})

RECURSIVE reduce_sum(_, _)
\* tf.reduce_sum of a vector of n entries
reduce_sum(f, n) == IF n = 0 THEN 0 ELSE f[n - 1] + reduce_sum(f, n - 1)

RECURSIVE Pow2(_)
Pow2(n) == IF n = 0 THEN 1 ELSE 2 * Pow2(n - 1)

\* tf.one_hot(idx, depth): a row of depth entries with a 1 at idx
one_hot(idx, depth) == [e \in Range0(depth) |-> IF e = idx THEN 1 ELSE 0]

\* the zero vector of the given depth
zeros(depth) == [c \in Range0(depth) |-> 0]

\* the token batch of length n: token i is the i-th unit vector of depth n
eye(n) == [i \in Range0(n) |-> one_hot(i, n)]

\* tf.to_int32 of the rational num/den (den > 0): truncation towards zero
to_int32(num, den) ==
  IF num >= 0 THEN num \div den ELSE -((-num) \div den)

\* a dispatcher that keeps the last tokens of a bucket and not the first:
\* a token is kept when fewer than expert_capacity later tokens request the
\* expert
KeepLastDispatcher(requests, length, num_experts, expert_capacity) ==
  LET later(i, e) ==
        Cardinality({j \in Range0(length) : j > i /\ requests[j][e] = 1})
      gate(i, e) == IF later(i, e) < expert_capacity THEN requests[i][e] ELSE 0
      position_in_expert(i, e) ==
        Cardinality({j \in Range0(i) : gate(j, e) = 1})
      held(e, s) ==
        LET here == {i \in Range0(length) :
                       gate(i, e) = 1 /\ position_in_expert(i, e) = s}
        IN IF here = {} THEN 0 ELSE (CHOOSE i \in here : TRUE) + 1
  IN [length |-> length,
      num_experts |-> num_experts,
      expert_capacity |-> expert_capacity,
      gates |-> [i \in Range0(length) |->
                   [e \in Range0(num_experts) |-> gate(i, e)]],
      nonpadding |-> [e \in Range0(num_experts) |->
                        [s \in Range0(expert_capacity) |-> Min(held(e, s), 1)]],
      indices |-> [e \in Range0(num_experts) |->
                     [s \in Range0(expert_capacity) |-> Max(held(e, s) - 1, 0)]]]

\* ------------------------------------------------------------- dispatchers
\* expert_utils.TruncatingDispatcher(requests, expert_capacity) for one
\* batch*heads element: requests is [length, num_experts] of 0/1.
\* A token's position in an expert is the number of earlier tokens that
\* request the expert; it is kept when that position is below the capacity.
TruncatingDispatcher(requests, length, num_experts, expert_capacity) ==
  LET \* exclusive cumulative sum of the 0/1 requests along the length
      position_in_expert(i, e) ==
        Cardinality({j \in Range0(i) : requests[j][e] = 1})
      gate(i, e) ==
        IF position_in_expert(i, e) < expert_capacity
        THEN requests[i][e] ELSE 0
      \* 1 + the token index held by each slot, 0 for an empty slot
      held(e, s) ==
        LET here == {i \in Range0(length) :
                       gate(i, e) = 1 /\ position_in_expert(i, e) = s}
        IN IF here = {} THEN 0 ELSE (CHOOSE i \in here : TRUE) + 1
  IN [length |-> length,
      num_experts |-> num_experts,
      expert_capacity |-> expert_capacity,
      gates |-> [i \in Range0(length) |->
                   [e \in Range0(num_experts) |-> gate(i, e)]],
      nonpadding |-> [e \in Range0(num_experts) |->
                        [s \in Range0(expert_capacity) |-> Min(held(e, s), 1)]],
      indices |-> [e \in Range0(num_experts) |->
                     [s \in Range0(expert_capacity) |-> Max(held(e, s) - 1, 0)]]]

\* TruncatingDispatcher.nonpadding(): 1 for a slot that holds a token
nonpadding(d) == d.nonpadding

\* TruncatingDispatcher.length_coordinate(): the original position per slot
length_coordinate(d) == d.indices

\* TruncatingDispatcher.dispatch(inp): [num_experts, capacity, depth],
\* zero rows in the empty slots
dispatch(d, inp, depth) ==
  [e \in Range0(d.num_experts) |-> [s \in Range0(d.expert_capacity) |->
     IF d.nonpadding[e][s] = 1 THEN inp[d.indices[e][s]] ELSE zeros(depth)]]

\* TruncatingDispatcher.combine(x): [length, depth]; row i is the sum of the
\* rows of the slots that hold token i, the zero vector when there is none
combine(d, x, depth) ==
  LET slots == Range0(d.num_experts) \X Range0(d.expert_capacity)
  IN [i \in Range0(d.length) |-> [c \in Range0(depth) |->
        SumFn([p \in slots |->
                 IF d.indices[p[1]][p[2]] = i
                 THEN x[p[1]][p[2]][c] * d.nonpadding[p[1]][p[2]] ELSE 0],
              slots)]]

\* ------------------------------------------------------------- attention
\* dot_product_attention(q, k, v, bias) per bucket: the softmax weight of key
\* slot t for query slot s is nonzero exactly where the bias is the largest
\* of the row (a logit carrying a smaller multiple of -1e9 underflows to 0);
\* the result row is the sum of the value rows over the nonzero weights.
attention_weights(bias, num_experts, capacity_q, capacity_k) ==
  [e \in Range0(num_experts) |-> [s \in Range0(capacity_q) |->
     [t \in Range0(capacity_k) |->
        IF \A u \in Range0(capacity_k) : bias[e][s][u] <= bias[e][s][t]
        THEN 1 ELSE 0]]]

dot_product_attention(v, bias, num_experts, capacity_q, capacity_k, depth_v) ==
  LET weights == attention_weights(bias, num_experts, capacity_q, capacity_k)
  IN [e \in Range0(num_experts) |-> [s \in Range0(capacity_q) |->
        [c \in Range0(depth_v) |->
           SumFn([t \in Range0(capacity_k) |-> weights[e][s][t] * v[e][t][c]],
                 Range0(capacity_k))]]]

\* a padding bias with the mask inverted: -1e9 on the slots that hold a key
padding_bias_inverted(k_dispatcher) ==
  [e \in Range0(k_dispatcher.num_experts) |->
     [t \in Range0(k_dispatcher.expert_capacity) |->
        (- nonpadding(k_dispatcher)[e][t]) * Big]]

\* a bias that masks the keys before the query and not those after it
attention_bias_mask_left(q_dispatcher, k_dispatcher, mask_right) ==
  [e \in Range0(q_dispatcher.num_experts) |->
     [s \in Range0(q_dispatcher.expert_capacity) |->
        [t \in Range0(k_dispatcher.expert_capacity) |->
           (nonpadding(k_dispatcher)[e][t] - 1) * Big
           + (IF mask_right /\ length_coordinate(k_dispatcher)[e][t]
                                < length_coordinate(q_dispatcher)[e][s]
              THEN -Big ELSE 0)]]]

\* the bias of both truncating paths: -1e9 on the padding slots of the keys
\* and, with mask_right, -1e9 more where the key's position is greater
\* than the query's
padding_bias(k_dispatcher) ==
  [e \in Range0(k_dispatcher.num_experts) |->
     [t \in Range0(k_dispatcher.expert_capacity) |->
        (nonpadding(k_dispatcher)[e][t] - 1) * Big]]

attention_bias(q_dispatcher, k_dispatcher, mask_right) ==
  [e \in Range0(q_dispatcher.num_experts) |->
     [s \in Range0(q_dispatcher.expert_capacity) |->
        [t \in Range0(k_dispatcher.expert_capacity) |->
           padding_bias(k_dispatcher)[e][t]
           + (IF mask_right /\ length_coordinate(k_dispatcher)[e][t]
                                > length_coordinate(q_dispatcher)[e][s]
              THEN -Big ELSE 0)]]]

\* ------------------------------------------------------------- LSH-routed, truncating
\* get_gates_head(x, add_first): the one-hot LSH gates of one head, with the
\* first position added to every bucket when add_first
get_gates_head(lsh, length, nb_buckets, add_first) ==
  [i \in Range0(length) |-> [e \in Range0(nb_buckets) |->
     Max(one_hot(lsh[i], nb_buckets)[e],
         IF add_first THEN one_hot(0, length)[i] ELSE 0)]]

\* a capacity taken from the fullest bucket of the batch
dispatch_capacity_by_load(batch, length, nb_buckets) ==
  LET load(g, e) == Cardinality({i \in Range0(length) : g[i][e] = 1})
      loads == {load(g, e) : g \in batch, e \in Range0(nb_buckets)}
  IN CHOOSE m \in loads : \A l \in loads : l <= m

\* the capacity without the clamp to the length
dispatch_capacity_unclamped(batch, length, nb_buckets) ==
  LET count(g) == reduce_sum([i \in Range0(length) |->
                                reduce_sum(g[i], nb_buckets)], length)
      nb_elems_to_dispatch == CHOOSE m \in {count(g) : g \in batch} :
                                \A g \in batch : count(g) <= m
  IN (nb_elems_to_dispatch \div nb_buckets) * 2

\* the capacity get_dispatcher gives the dispatcher of `gates`; batch is the
\* set of the gates of every batch*heads element
dispatch_capacity(batch, length, nb_buckets) ==
  LET count(g) == reduce_sum([i \in Range0(length) |->
                                reduce_sum(g[i], nb_buckets)], length)
      nb_elems_to_dispatch == CHOOSE m \in {count(g) : g \in batch} :
                                \A g \in batch : count(g) <= m
  IN Min(length, (nb_elems_to_dispatch \div nb_buckets) * 2)

get_dispatcher(gates, length, nb_buckets) ==
  TruncatingDispatcher(gates, length, nb_buckets,
                       dispatch_capacity({gates}, length, nb_buckets))

\* dot_product_batched_head, lines 5707-5712: the two dispatchers
batched_head_dispatchers(gq, gk, length, nb_buckets) ==
  [q |-> get_dispatcher(gq, length, nb_buckets),
   k |-> get_dispatcher(gk, length, nb_buckets)]

\* dot_product_batched_head, line 5727: the per-bucket attention over the
\* dispatched values
batched_head_attention(kd, v, b, capacity_q, depth_v) ==
  dot_product_attention(dispatch(kd, v, depth_v), b, kd.num_experts,
                        capacity_q, kd.expert_capacity, depth_v)

\* a reshape of the per-bucket result to [length, depth] in place of the
\* combine: row i is slot i of the buckets laid end to end
batched_head_reshape(qd, kd, o, depth_v) ==
  [i \in Range0(qd.length) |->
     IF qd.expert_capacity > 0 /\ i < qd.num_experts * qd.expert_capacity
     THEN o[i \div qd.expert_capacity][i % qd.expert_capacity]
     ELSE zeros(depth_v)]

\* dot_product_batched_head, line 5730: back to the original length
batched_head_combine(qd, kd, o, depth_v) == combine(qd, o, depth_v)

\* ------------------------------------------------------------- grouped_attention_multihead
\* the hyperparameters memory_target_density, multiplicative_overhead and
\* additive_overhead as rationals <<numerator, denominator>>
DefaultOverheads ==
  [memory_target_density |-> <<2, 1>>,
   multiplicative_overhead |-> <<5, 4>>,
   additive_overhead |-> <<8, 1>>]

\* no slack at all: the capacity is the target group size
TightOverheads ==
  [memory_target_density |-> <<1, 1>>,
   multiplicative_overhead |-> <<1, 1>>,
   additive_overhead |-> <<0, 1>>]

\* half a token of additive slack
HalfOverheads ==
  [memory_target_density |-> <<1, 1>>,
   multiplicative_overhead |-> <<1, 1>>,
   additive_overhead |-> <<1, 2>>]

\* query requests with the first position added to every group, as the
\* memory requests have it
grouped_q_requests_with_first(q_group, length_q, num_groups) ==
  [i \in Range0(length_q) |-> [g \in Range0(num_groups) |->
     Max(one_hot(q_group[i], num_groups)[g], one_hot(0, length_q)[i])]]

\* q_requests: the one-hot row of each query's group (the argmax of its
\* biased predictions)
grouped_q_requests(q_group, length_q, num_groups) ==
  [i \in Range0(length_q) |-> one_hot(q_group[i], num_groups)]

\* memory requests without the first position added to every group
grouped_m_requests_thresholded(m_greater, length_kv, num_groups) ==
  [j \in Range0(length_kv) |-> [g \in Range0(num_groups) |-> m_greater[j][g]]]

\* m_requests: the groups whose biased prediction is positive and, for the
\* first memory position, every group
grouped_m_requests(m_greater, length_kv, num_groups) ==
  [j \in Range0(length_kv) |-> [g \in Range0(num_groups) |->
     Max(m_greater[j][g], one_hot(0, length_kv)[j])]]

\* capacity_q = min(length_q, int32(length_q / num_groups
\*                                  * multiplicative_overhead + additive_overhead))
grouped_capacity_q(length_q, num_groups, h) ==
  LET mo == h.multiplicative_overhead
      ao == h.additive_overhead
  IN Min(length_q,
         to_int32(length_q * mo[1] * ao[2] + ao[1] * num_groups * mo[2],
                  num_groups * mo[2] * ao[2]))

\* capacity_m = min(length_kv, int32(length_kv * memory_target_density
\*                    / num_groups * multiplicative_overhead + additive_overhead))
grouped_capacity_m(length_kv, num_groups, h) ==
  LET md == h.memory_target_density
      mo == h.multiplicative_overhead
      ao == h.additive_overhead
  IN Min(length_kv,
         to_int32(length_kv * md[1] * mo[1] * ao[2]
                    + ao[1] * num_groups * md[2] * mo[2],
                  num_groups * md[2] * mo[2] * ao[2]))

\* lines 1462-1463: the two dispatchers
grouped_dispatchers(q_requests, m_requests, length_q, length_kv, num_groups, h) ==
  [q |-> TruncatingDispatcher(q_requests, length_q, num_groups,
                              grouped_capacity_q(length_q, num_groups, h)),
   k |-> TruncatingDispatcher(m_requests, length_kv, num_groups,
                              grouped_capacity_m(length_kv, num_groups, h))]

\* lines 1481-1488: o = matmul(exp(log_softmax(logits)), v)
grouped_attention(md, v, b, capacity_q, depth_v) ==
  dot_product_attention(dispatch(md, v, depth_v), b, md.num_experts,
                        capacity_q, md.expert_capacity, depth_v)

\* lines 1489-1491: o = q_dispatcher.combine(o), one row per query position
grouped_combine(qd, md, o, depth_v) == combine(qd, o, depth_v)

\* ------------------------------------------------------------- LSH-routed, not truncating
\* a tensor of shape [n, 1] holding one integer per token, or Python's None
NoneTensor == [is_none |-> TRUE, shape |-> <<>>, val |-> <<>>]

column(n, f) ==
  [is_none |-> FALSE, shape |-> <<n, 1>>, val |-> [i \in Range0(n) |-> f[i]]]

\* expert_utils.SparseDispatcher(num_experts, gates): bucket e holds, in
\* their original order, the tokens whose gate for e is positive
SparseDispatcher(num_experts, gates, length) ==
  LET members(e) == {i \in Range0(length) : gates[i][e] > 0}
      nth(e, s) == CHOOSE i \in members(e) :
                     Cardinality({j \in members(e) : j < i}) = s
  IN [length |-> length,
      num_experts |-> num_experts,
      gates |-> gates,
      indices |-> [e \in Range0(num_experts) |->
                     [s \in Range0(Cardinality(members(e))) |-> nth(e, s)]]]

\* SparseDispatcher.dispatch(inp): one tensor per bucket
sparse_dispatch(d, inp) ==
  [e \in Range0(d.num_experts) |->
     [s \in DOMAIN d.indices[e] |-> inp[d.indices[e][s]]]]

\* SparseDispatcher.dispatch of a [n, 1] tensor; None stays None per bucket
\* (eventually_dispatch)
eventually_dispatch(d, t) ==
  [e \in Range0(d.num_experts) |->
     IF t.is_none THEN NoneTensor
     ELSE column(Cardinality(DOMAIN d.indices[e]),
                 [s \in DOMAIN d.indices[e] |-> t.val[d.indices[e][s]]])]

\* SparseDispatcher.combine(expert_out): row i is the gate-weighted sum of
\* the rows the buckets of token i computed for it
sparse_combine(d, expert_out, depth) ==
  LET slots == {p \in Range0(d.num_experts) \X Range0(d.length) :
                  p[2] \in DOMAIN d.indices[p[1]]}
  IN [i \in Range0(d.length) |-> [c \in Range0(depth) |->
        SumFn([p \in slots |->
                 IF d.indices[p[1]][p[2]] = i
                 THEN d.gates[i][p[1]] * expert_out[p[1]][p[2]][c] ELSE 0],
              slots)]]

RECURSIVE inner_to_float(_)
\* the to_float defined inside attention_bias_batch: it squeezes axis 1 and
\* then calls to_float, which inside attention_bias_batch names this same
\* inner function and not the module's cast; tf.squeeze raises ValueError
\* when the tensor has no axis 1 of size 1
inner_to_float(bc) ==
  IF bc.is_none \/ Len(bc.shape) < 2 THEN [err |-> "ValueError"]
  ELSE IF bc.shape[2] # 1 THEN [err |-> "ValueError"]
  ELSE inner_to_float([bc EXCEPT !.shape = <<bc.shape[1]>> \o SubSeq(bc.shape, 3, Len(bc.shape))])

\* the condition_fn of attention_bias_coordinates: min(1, |k - q|)
coordinates_condition_fn(x) == Min(1, IF x < 0 THEN -x ELSE x)

\* the condition_fn of attention_bias_future: max(0, min(1, k - q))
future_condition_fn(x) == Max(0, Min(1, x))

\* attention_bias_batch(batch_coordinates_q, batch_coordinates_k, condition_fn):
\* [length_q, length_k] of condition_fn(k - q) * -1e9
attention_bias_batch(batch_coordinates_q, batch_coordinates_k, condition_fn) ==
  LET bk == IF batch_coordinates_k.is_none THEN batch_coordinates_q
            ELSE batch_coordinates_k
      bc_v == inner_to_float(batch_coordinates_q)
      bc_h == inner_to_float(bk)
      cond(x) == IF condition_fn = "coordinates"
                 THEN coordinates_condition_fn(x)
                 ELSE future_condition_fn(x)
  IN IF bc_v.err # "None" THEN [err |-> bc_v.err, val |-> <<>>]
     ELSE IF bc_h.err # "None" THEN [err |-> bc_h.err, val |-> <<>>]
     ELSE [err |-> "None",
           val |-> [i \in DOMAIN bc_v.val |-> [j \in DOMAIN bc_h.val |->
                      cond(bc_h.val[j] - bc_v.val[i]) * (-Big)]]]

\* expert_dot_product(q, k, v, info_q, info_k) for one bucket: the bias is
\* built first, then tf.cond picks is_zero or is_not_zero
expert_dot_product(length_q, length_k, v, depth_v, info_q, info_k) ==
  LET bias_c == attention_bias_batch(info_q.coordinates, info_k.coordinates,
                                     "coordinates")
      bias_f == IF info_k.order.is_none
                THEN [err |-> "None",
                      val |-> [i \in Range0(length_q) |->
                                 [j \in Range0(length_k) |-> 0]]]
                ELSE attention_bias_batch(info_q.order, info_k.order, "future")
      b == [e \in {0} |-> [i \in Range0(length_q) |-> [j \in Range0(length_k) |->
              bias_c.val[i][j] + bias_f.val[i][j]]]]
  IN IF bias_c.err # "None" THEN [err |-> bias_c.err, branch |-> "None", val |-> <<>>]
     ELSE IF bias_f.err # "None" THEN [err |-> bias_f.err, branch |-> "None", val |-> <<>>]
     ELSE IF length_q = 0 \/ length_k = 0
     THEN [err |-> "None", branch |-> "is_zero",
           val |-> [i \in Range0(length_q) |-> zeros(depth_v)]]
     ELSE [err |-> "None", branch |-> "is_not_zero",
           val |-> dot_product_attention([e \in {0} |-> v], b, 1,
                                         length_q, length_k, depth_v)[0]]

\* self_attention_expert(x, batch_coordinate, ...) after the counter is
\* bumped: tf.cond(length = 0, empty_out, length_not_null). Building a graph
\* traces both branches; eager execution runs the taken one only.
\* length_not_null starts with attention_bias_coordinates(batch_coordinate).
self_attention_expert(length, executing_eagerly) ==
  LET bias_batch == attention_bias_batch(column(length, [i \in Range0(length) |-> 0]),
                                         NoneTensor, "coordinates")
  IN IF executing_eagerly /\ length = 0
     THEN [err |-> "None", branch |-> "empty_out", val |-> <<>>]
     ELSE IF bias_batch.err # "None"
     THEN [err |-> bias_batch.err, branch |-> "None", val |-> <<>>]
     ELSE IF length = 0
     THEN [err |-> "None", branch |-> "empty_out", val |-> <<>>]
     ELSE [err |-> "None", branch |-> "length_not_null",
           val |-> [i \in Range0(length) |-> "multihead_attention"]]

\* ------------------------------------------------------------- state
VARIABLES
  pc,            \* "call" before the function runs, "done" / "raised" after
  inp,           \* the arguments of the call
  gates_q,       \* the query gates (requests) the call computed
  gates_k,       \* the key / memory gates (requests) the call computed
  q_dispatcher,  \* the dispatcher of the queries
  k_dispatcher,  \* the dispatcher of the keys / memories
  dispatched_q,  \* q_dispatcher.dispatch(q)
  bias,          \* the attention bias [bucket, query slot, key slot]
  weights,       \* which attention weights are nonzero, like bias
  v_out,         \* the per-bucket attention result
  out,           \* the result of the call
  err,           \* the exception the call raised, "None" when it returned
  x,             \* the local x of LshGating.get_gates
  expert_count,  \* the module's _expert_count
  function_cache,\* the module's _function_cache
  cache,         \* the cache dict the caller shares between calls
  effects,       \* what the last call did, in order, before it ended
  calls          \* the number of calls made so far

vars == <<pc, inp, gates_q, gates_k, q_dispatcher, k_dispatcher,
          dispatched_q, bias, weights, v_out, out, err, x, expert_count,
          function_cache, cache, effects, calls>>

\* the state outside the sparse attention pipeline
other == <<function_cache, cache, effects, calls>>

\* what a step of a call that has not failed leaves alone
frame == <<inp, err, x, expert_count, other>>

\* the arguments of sparse_dot_product_attention_truncated: the sequence
\* length, nb_hyperplanes, mask_right and, per token, the bucket
\* LshGating.get_gates picks for the query and for the key
TruncatedInputs ==
  UNION {
    UNION {
      [fn : {"truncated"}, length : {n}, nb_hyperplanes : {h},
       mask_right : BOOLEAN,
       lsh_q : [Range0(n) -> Range0(Pow2(h))],
       lsh_k : [Range0(n) -> Range0(Pow2(h))]]
      : h \in {b \in 1 .. MaxRouting : n * b <= MaxRouting} }
    : n \in 0 .. MaxRouting }

\* the arguments of grouped_attention_multihead: the two lengths,
\* num_groups, the overheads, mask_right and, per token, the group that
\* maximises the query's biased predictions (line 1442) and whether each of
\* the memory's biased predictions is positive (line 1444)
GroupedInputs ==
  UNION {
    UNION {
      UNION {
        [fn : {"grouped"}, length_q : {n}, length_kv : {m}, num_groups : {g},
         overheads : {DefaultOverheads, TightOverheads},
         mask_right : BOOLEAN,
         q_group : [Range0(n) -> Range0(g)],
         m_greater : [Range0(m) -> [Range0(g) -> {0, 1}]]]
        : m \in {l \in 0 .. MaxRouting : l * g <= MaxRouting} }
      : n \in 0 .. MaxLenG }
    : g \in 1 .. MaxGroups }

\* length 10, 4 groups, capacity 3, the queries sent round-robin to the groups
RoundRobinInput ==
  [fn |-> "grouped", length_q |-> 10, length_kv |-> 1, num_groups |-> 4,
   overheads |-> HalfOverheads, mask_right |-> FALSE,
   q_group |-> [i \in Range0(10) |-> i % 4],
   m_greater |-> [j \in Range0(1) |-> [g \in Range0(4) |-> 0]]]

\* the arguments of sparse_dot_product_attention for one head: as for the
\* truncating path, and whether bi.order is given
SparseInputs ==
  UNION {
    UNION {
      [fn : {"sparse"}, length : {n}, nb_hyperplanes : {h},
       order_given : BOOLEAN,
       lsh_q : [Range0(n) -> Range0(Pow2(h))],
       lsh_k : [Range0(n) -> Range0(Pow2(h))]]
      : h \in {b \in 1 .. MaxRouting : n * b <= MaxRouting} }
    : n \in 0 .. MaxRouting }

\* the arguments of self_attention_expert: the number of tokens the expert
\* receives and whether TensorFlow executes eagerly
ExpertInputs ==
  [fn : {"expert"}, length : 0 .. MaxLenG, executing_eagerly : BOOLEAN]

Init ==
  /\ pc = "call"
  /\ inp \in TruncatedInputs \cup GroupedInputs \cup {RoundRobinInput}
             \cup SparseInputs \cup ExpertInputs
  /\ err = "None"
  /\ x = None
  /\ expert_count = 0
  /\ function_cache = <<>> /\ cache = None /\ effects = <<>> /\ calls = 0
  /\ gates_q = None /\ gates_k = None
  /\ q_dispatcher = None /\ k_dispatcher = None
  /\ dispatched_q = None /\ bias = None /\ weights = None /\ v_out = None /\ out = None

\* sparse_dot_product_attention_truncated, lines 5824-5825: the gates of
\* the queries and, with the first position in every bucket, of the keys
TruncatedGates ==
  /\ pc = "call" /\ inp.fn = "truncated"
  /\ gates_q' = get_gates_head(inp.lsh_q, inp.length,
                               Pow2(inp.nb_hyperplanes), FALSE)
  /\ gates_k' = get_gates_head(inp.lsh_k, inp.length,
                               Pow2(inp.nb_hyperplanes), TRUE)
  /\ pc' = "batched_head"
  /\ UNCHANGED <<frame, q_dispatcher, k_dispatcher, dispatched_q, bias, weights, v_out, out>>

\* dot_product_batched_head, lines 5707-5712
BatchedHeadDispatch ==
  /\ pc = "batched_head"
  /\ LET d == batched_head_dispatchers(gates_q, gates_k, inp.length,
                                       Pow2(inp.nb_hyperplanes))
     IN /\ q_dispatcher' = d.q
        /\ k_dispatcher' = d.k
        /\ dispatched_q' = dispatch(d.q, eye(inp.length), inp.length)
  /\ pc' = "batched_bias"
  /\ UNCHANGED <<frame, gates_q, gates_k, bias, weights, v_out, out>>

\* dot_product_batched_head, lines 5716-5722
BatchedHeadBias ==
  /\ pc = "batched_bias"
  /\ bias' = attention_bias(q_dispatcher, k_dispatcher, inp.mask_right)
  /\ pc' = "batched_attention"
  /\ UNCHANGED <<frame, gates_q, gates_k, q_dispatcher, k_dispatcher,
                 dispatched_q, weights, v_out, out>>

\* dot_product_batched_head, line 5727
BatchedHeadAttention ==
  /\ pc = "batched_attention"
  /\ weights' = attention_weights(bias, k_dispatcher.num_experts,
                                  q_dispatcher.expert_capacity,
                                  k_dispatcher.expert_capacity)
  /\ v_out' = batched_head_attention(k_dispatcher, eye(inp.length), bias,
                                     q_dispatcher.expert_capacity, inp.length)
  /\ pc' = "batched_combine"
  /\ UNCHANGED <<frame, gates_q, gates_k, q_dispatcher, k_dispatcher,
                 dispatched_q, bias, out>>

\* dot_product_batched_head, line 5730, and the return of the caller
BatchedHeadCombine ==
  /\ pc = "batched_combine"
  /\ out' = batched_head_combine(q_dispatcher, k_dispatcher, v_out, inp.length)
  /\ pc' = "done"
  /\ UNCHANGED <<frame, gates_q, gates_k, q_dispatcher, k_dispatcher,
                 dispatched_q, bias, weights, v_out>>

\* grouped_attention_multihead, lines 1442-1447
GroupedRequests ==
  /\ pc = "call" /\ inp.fn = "grouped"
  /\ gates_q' = grouped_q_requests(inp.q_group, inp.length_q, inp.num_groups)
  /\ gates_k' = grouped_m_requests(inp.m_greater, inp.length_kv, inp.num_groups)
  /\ pc' = "grouped_dispatch"
  /\ UNCHANGED <<frame, q_dispatcher, k_dispatcher, dispatched_q, bias, weights, v_out, out>>

\* grouped_attention_multihead, lines 1450-1467
GroupedDispatch ==
  /\ pc = "grouped_dispatch"
  /\ LET d == grouped_dispatchers(gates_q, gates_k, inp.length_q, inp.length_kv,
                                  inp.num_groups, inp.overheads)
     IN /\ q_dispatcher' = d.q
        /\ k_dispatcher' = d.k
        /\ dispatched_q' = dispatch(d.q, eye(inp.length_q), inp.length_q)
  /\ pc' = "grouped_bias"
  /\ UNCHANGED <<frame, gates_q, gates_k, bias, weights, v_out, out>>

\* grouped_attention_multihead, lines 1473-1480
GroupedBias ==
  /\ pc = "grouped_bias"
  /\ bias' = attention_bias(q_dispatcher, k_dispatcher, inp.mask_right)
  /\ pc' = "grouped_attention"
  /\ UNCHANGED <<frame, gates_q, gates_k, q_dispatcher, k_dispatcher,
                 dispatched_q, weights, v_out, out>>

\* grouped_attention_multihead, lines 1481-1488
GroupedAttention ==
  /\ pc = "grouped_attention"
  /\ weights' = attention_weights(bias, k_dispatcher.num_experts,
                                  q_dispatcher.expert_capacity,
                                  k_dispatcher.expert_capacity)
  /\ v_out' = grouped_attention(k_dispatcher, eye(inp.length_kv), bias,
                                q_dispatcher.expert_capacity, inp.length_kv)
  /\ pc' = "grouped_combine"
  /\ UNCHANGED <<frame, gates_q, gates_k, q_dispatcher, k_dispatcher,
                 dispatched_q, bias, out>>

\* grouped_attention_multihead, lines 1489-1491
GroupedCombine ==
  /\ pc = "grouped_combine"
  /\ out' = grouped_combine(q_dispatcher, k_dispatcher, v_out, inp.length_kv)
  /\ pc' = "done"
  /\ UNCHANGED <<frame, gates_q, gates_k, q_dispatcher, k_dispatcher,
                 dispatched_q, bias, weights, v_out>>

\* the gates of one head, counted as self_attention_expert counts its calls
SparseGatesCounting ==
  /\ pc = "call" /\ inp.fn = "sparse"
  /\ gates_q' = get_gates_head(inp.lsh_q, inp.length,
                               Pow2(inp.nb_hyperplanes), FALSE)
  /\ gates_k' = get_gates_head(inp.lsh_k, inp.length,
                               Pow2(inp.nb_hyperplanes), FALSE)
  /\ pc' = "single_head"
  /\ expert_count' = expert_count + 1
  /\ UNCHANGED <<inp, err, x, other, q_dispatcher, k_dispatcher,
                 dispatched_q, bias, weights, v_out, out>>

\* sparse_dot_product_attention, lines 5632-5641: the gates of one head
SparseGates ==
  /\ pc = "call" /\ inp.fn = "sparse"
  /\ gates_q' = get_gates_head(inp.lsh_q, inp.length,
                               Pow2(inp.nb_hyperplanes), FALSE)
  /\ gates_k' = get_gates_head(inp.lsh_k, inp.length,
                               Pow2(inp.nb_hyperplanes), FALSE)
  /\ pc' = "single_head"
  /\ UNCHANGED <<frame, q_dispatcher, k_dispatcher, dispatched_q, bias, weights, v_out, out>>

\* dot_product_single_head, lines 5493-5522
SingleHeadDispatch ==
  /\ pc = "single_head"
  /\ q_dispatcher' = SparseDispatcher(Pow2(inp.nb_hyperplanes), gates_q, inp.length)
  /\ k_dispatcher' = SparseDispatcher(Pow2(inp.nb_hyperplanes), gates_k, inp.length)
  /\ dispatched_q' = sparse_dispatch(q_dispatcher', eye(inp.length))
  /\ pc' = "single_head_experts"
  /\ UNCHANGED <<frame, gates_q, gates_k, bias, weights, v_out, out>>

\* the BatchInfo of the call: one sequence, and the positions when given
bi_coordinates == column(inp.length, [i \in Range0(inp.length) |-> 0])

bi_order ==
  IF inp.order_given
  THEN column(inp.length, [i \in Range0(inp.length) |-> i])
  ELSE NoneTensor

\* dot_product_single_head, lines 5503-5533: expert_dot_product bucket by
\* bucket, then the combine; the first bucket that raises ends the call
SingleHeadExperts ==
  /\ pc = "single_head_experts"
  /\ LET nb == Pow2(inp.nb_hyperplanes)
         qbc == eventually_dispatch(q_dispatcher, bi_coordinates)
         qbo == eventually_dispatch(q_dispatcher, bi_order)
         kbc == eventually_dispatch(k_dispatcher, bi_coordinates)
         kbo == eventually_dispatch(k_dispatcher, bi_order)
         v == sparse_dispatch(k_dispatcher, eye(inp.length))
         list_v_out ==
           [e \in Range0(nb) |->
              expert_dot_product(Cardinality(DOMAIN q_dispatcher.indices[e]),
                                 Cardinality(DOMAIN k_dispatcher.indices[e]),
                                 v[e], inp.length,
                                 [coordinates |-> qbc[e], order |-> qbo[e]],
                                 [coordinates |-> kbc[e], order |-> kbo[e]])]
         failed == {e \in Range0(nb) : list_v_out[e].err # "None"}
     IN /\ v_out' = list_v_out
        /\ IF failed # {}
           THEN /\ err' = list_v_out[CHOOSE e \in failed :
                                       \A f \in failed : e <= f].err
                /\ out' = out
                /\ pc' = "raised"
           ELSE /\ err' = err
                /\ out' = sparse_combine(q_dispatcher,
                                         [e \in Range0(nb) |-> list_v_out[e].val],
                                         inp.length)
                /\ pc' = "done"
  /\ UNCHANGED <<inp, x, expert_count, gates_q, gates_k, q_dispatcher,
                 k_dispatcher, dispatched_q, bias, weights, other>>

\* self_attention_expert, lines 5284-5357
SelfAttentionExpert ==
  /\ pc = "call" /\ inp.fn = "expert"
  /\ expert_count' = expert_count + 1
  /\ LET r == self_attention_expert(inp.length, inp.executing_eagerly)
     IN /\ err' = r.err
        /\ v_out' = r
        /\ out' = r.val
        /\ pc' = IF r.err = "None" THEN "done" ELSE "raised"
  /\ UNCHANGED <<inp, x, gates_q, gates_k, q_dispatcher, k_dispatcher,
                 dispatched_q, bias, weights, other>>

Next ==
  \/ SparseGates
  \/ SingleHeadDispatch
  \/ SingleHeadExperts
  \/ SelfAttentionExpert
  \/ GroupedRequests
  \/ GroupedDispatch
  \/ GroupedBias
  \/ GroupedAttention
  \/ GroupedCombine
  \/ TruncatedGates
  \/ BatchedHeadDispatch
  \/ BatchedHeadBias
  \/ BatchedHeadAttention
  \/ BatchedHeadCombine

Spec == Init /\ [][Next]_vars

\* ------------------------------------------------------------- gating
\* the sizes of the gating inputs: depth * nb_hyperplanes is at most
\* MaxWeights, length * depth and length * num_groups at most MaxCells, and
\* every entry of a tensor is an integer of -MaxVal .. MaxVal
MaxWeights == 2

MaxCells == 2

MaxVal == 1

Vals == (-MaxVal) .. MaxVal

\* bits with the least significant bit first
idx_to_bits_lsb_first(i, nb_hyperplanes) ==
  [h \in Range0(nb_hyperplanes) |->
     IF (i \div Pow2(h)) % 2 = 0 THEN -1 ELSE 1]

\* LshGating._idx_to_bits(i): bin(i) padded with zeros to nb_hyperplanes
\* digits, most significant first, -1.0 for "0" and 1.0 for "1"
idx_to_bits(i, nb_hyperplanes) ==
  [h \in Range0(nb_hyperplanes) |->
     IF (i \div Pow2(nb_hyperplanes - 1 - h)) % 2 = 0 THEN -1 ELSE 1]

\* LshGating.__init__: t_group, one row of bits per bucket
t_group(nb_hyperplanes) ==
  [b \in Range0(Pow2(nb_hyperplanes)) |-> idx_to_bits(b, nb_hyperplanes)]

\* tf.sign
sign(v) == IF v > 0 THEN 1 ELSE IF v < 0 THEN -1 ELSE 0

\* tf.argmax over a row of rationals <<numerator, denominator>> with positive
\* denominators: the smallest index that holds the largest value
argmax(row, n) ==
  CHOOSE b \in Range0(n) :
    /\ \A c \in Range0(n) : row[c][1] * row[b][2] <= row[b][1] * row[c][2]
    /\ \A c \in Range0(b) : row[c][1] * row[b][2] < row[b][1] * row[c][2]

\* get_gates, line 905: tf.matmul(x, self.t_vectors), [length, nb_hyperplanes]
lsh_project(tokens, length, t_vectors, depth, nb_hyperplanes) ==
  [i \in Range0(length) |-> [h \in Range0(nb_hyperplanes) |->
     SumFn([d \in Range0(depth) |-> tokens[i][d] * t_vectors[d][h]],
           Range0(depth))]]

\* get_gates, line 907: tf.sign(x)
lsh_sign(projected, length, nb_hyperplanes) ==
  [i \in Range0(length) |-> [h \in Range0(nb_hyperplanes) |->
     sign(projected[i][h])]]

\* get_gates, line 912: tf.matmul(x, self.t_group, transpose_b=True)
\* / self.nb_hyperplanes, [length, nb_buckets] of rationals
lsh_scores(signs, length, nb_hyperplanes) ==
  [i \in Range0(length) |-> [b \in Range0(Pow2(nb_hyperplanes)) |->
     <<SumFn([h \in Range0(nb_hyperplanes) |->
                signs[i][h] * t_group(nb_hyperplanes)[b][h]],
             Range0(nb_hyperplanes)),
       nb_hyperplanes>>]]

\* get_gates, line 915: tf.argmax(x, axis=-1)
lsh_argmax(scores, length, nb_hyperplanes) ==
  [i \in Range0(length) |-> argmax(scores[i], Pow2(nb_hyperplanes))]

\* get_gates, line 918: tf.one_hot(x, self.nb_buckets)
lsh_one_hot(buckets, length, nb_hyperplanes) ==
  [i \in Range0(length) |-> one_hot(buckets[i], Pow2(nb_hyperplanes))]

\* grouped_attention_multihead, line 1442: q_group
q_group_of(q_pred_biased, length_q, num_groups) ==
  [i \in Range0(length_q) |->
     argmax([g \in Range0(num_groups) |-> <<q_pred_biased[i][g], 1>>], num_groups)]

\* grouped_attention_multihead, line 1444: to_float(tf.greater(m_pred_biased, 0.0))
m_greater_of(m_pred_biased, length_kv, num_groups) ==
  [j \in Range0(length_kv) |-> [g \in Range0(num_groups) |->
     IF m_pred_biased[j][g] > 0 THEN 1 ELSE 0]]

\* the arguments of LshGating(depth, nb_hyperplanes).get_gates(x) inside
\* sparse_dot_product_attention_truncated: the hyperplane vectors and the
\* tokens
LshInputs ==
  UNION {
    UNION {
      UNION {
        [fn : {"lsh"}, depth : {d}, nb_hyperplanes : {h}, length : {n},
         t_vectors : [Range0(d) -> [Range0(h) -> Vals]],
         x : [Range0(n) -> [Range0(d) -> Vals]]]
        : n \in {l \in 0 .. MaxCells : l * d <= MaxCells} }
      : h \in {b \in 1 .. MaxWeights : d * b <= MaxWeights} }
    : d \in 1 .. MaxWeights }

\* the biased predictions grouped_attention_multihead computes its requests
\* from
PredictionInputs ==
  UNION {
    UNION {
      UNION {
        [fn : {"requests"}, num_groups : {g}, length_q : {n}, length_kv : {m},
         q_pred_biased : [Range0(n) -> [Range0(g) -> Vals]],
         m_pred_biased : [Range0(m) -> [Range0(g) -> Vals]]]
        : m \in {l \in 0 .. MaxCells : l * g <= MaxCells} }
      : n \in {l \in 0 .. MaxCells : l * g <= MaxCells} }
    : g \in 1 .. MaxCells }

InitGating ==
  /\ pc = "call"
  /\ inp \in LshInputs \cup PredictionInputs
  /\ err = "None"
  /\ x = None
  /\ expert_count = 0
  /\ function_cache = <<>> /\ cache = None /\ effects = <<>> /\ calls = 0
  /\ gates_q = None /\ gates_k = None
  /\ q_dispatcher = None /\ k_dispatcher = None
  /\ dispatched_q = None /\ bias = None /\ weights = None /\ v_out = None /\ out = None

\* what the steps of the gating leave alone
rest == <<inp, err, expert_count, q_dispatcher, k_dispatcher, dispatched_q,
          bias, weights, v_out, out, other>>

\* LshGating.get_gates, line 905
LshProject ==
  /\ pc = "call" /\ inp.fn = "lsh"
  /\ x' = lsh_project(inp.x, inp.length, inp.t_vectors, inp.depth,
                      inp.nb_hyperplanes)
  /\ pc' = "lsh_sign"
  /\ UNCHANGED <<rest, gates_q, gates_k>>

\* LshGating.get_gates, line 907
LshSign ==
  /\ pc = "lsh_sign"
  /\ x' = lsh_sign(x, inp.length, inp.nb_hyperplanes)
  /\ pc' = "lsh_scores"
  /\ UNCHANGED <<rest, gates_q, gates_k>>

\* LshGating.get_gates, line 912
LshScores ==
  /\ pc = "lsh_scores"
  /\ x' = lsh_scores(x, inp.length, inp.nb_hyperplanes)
  /\ pc' = "lsh_argmax"
  /\ UNCHANGED <<rest, gates_q, gates_k>>

\* LshGating.get_gates, line 915
LshArgmax ==
  /\ pc = "lsh_argmax"
  /\ x' = lsh_argmax(x, inp.length, inp.nb_hyperplanes)
  /\ pc' = "lsh_one_hot"
  /\ UNCHANGED <<rest, gates_q, gates_k>>

\* LshGating.get_gates, lines 918-920: the gates it returns
LshOneHot ==
  /\ pc = "lsh_one_hot"
  /\ gates_q' = lsh_one_hot(x, inp.length, inp.nb_hyperplanes)
  /\ pc' = "gates_head"
  /\ UNCHANGED <<rest, x, gates_k>>

\* sparse_dot_product_attention_truncated, lines 5781-5825: get_gates_head
\* without and with add_first
GatesHead ==
  /\ pc = "gates_head"
  /\ gates_q' = get_gates_head(x, inp.length, Pow2(inp.nb_hyperplanes), FALSE)
  /\ gates_k' = get_gates_head(x, inp.length, Pow2(inp.nb_hyperplanes), TRUE)
  /\ pc' = "done"
  /\ UNCHANGED <<rest, x>>

\* grouped_attention_multihead, lines 1442-1447, from the predictions
PredictedRequests ==
  /\ pc = "call" /\ inp.fn = "requests"
  /\ gates_q' = grouped_q_requests(
                  q_group_of(inp.q_pred_biased, inp.length_q, inp.num_groups),
                  inp.length_q, inp.num_groups)
  /\ gates_k' = grouped_m_requests(
                  m_greater_of(inp.m_pred_biased, inp.length_kv, inp.num_groups),
                  inp.length_kv, inp.num_groups)
  /\ pc' = "done"
  /\ UNCHANGED <<rest, x>>

NextGating ==
  \/ LshProject
  \/ LshSign
  \/ LshScores
  \/ LshArgmax
  \/ LshOneHot
  \/ GatesHead
  \/ PredictedRequests

SpecGating == InitGating /\ [][NextGating]_vars

\* ------------------------------------------------------------- properties
\* the call runs one of the two truncating paths
Truncating == inp.fn \in {"grouped", "truncated"}

\* the dispatchers of a truncating call have been built
Dispatched ==
  Truncating /\ pc \notin {"call", "batched_head", "grouped_dispatch"}

\* the attention bias of a truncating call has been built
Biased ==
  Dispatched /\ pc \notin {"batched_bias", "grouped_bias"}

\* the attention weights of a truncating call have been computed
Attended ==
  Biased /\ pc \notin {"batched_attention", "grouped_attention"}

\* the lengths of the query and of the key / memory sequence of the call
LenQ == IF inp.fn = "grouped" THEN inp.length_q ELSE inp.length

LenK == IF inp.fn = "grouped" THEN inp.length_kv ELSE inp.length

\* the tokens that request bucket e
Assigned(requests, len, e) == {i \in Range0(len) : requests[i][e] = 1}

\* the first min(load, capacity) of them, by original index
FirstAssigned(requests, len, e, capacity) ==
  {i \in Assigned(requests, len, e) :
     Cardinality({j \in Assigned(requests, len, e) : j < i}) < capacity}

\* the tokens the slots of bucket e hold
Placed(d, e) ==
  {d.indices[e][s] : s \in {t \in Range0(d.expert_capacity) :
                               d.nonpadding[e][t] = 1}}

CapacityBound(d, len) ==
  /\ d.expert_capacity <= len
  /\ \A e \in Range0(d.num_experts) :
       /\ Cardinality({s \in Range0(d.expert_capacity) :
                         d.nonpadding[e][s] = 1}) <= d.expert_capacity
       /\ Cardinality({i \in Range0(len) : d.gates[i][e] = 1})
            <= d.expert_capacity
       /\ Cardinality(Placed(d, e)) = Cardinality({i \in Range0(len) : d.gates[i][e] = 1})

\* C1: in both truncating paths no bucket receives more real tokens than
\* the capacity, and the capacity is at most the sequence length
C1_CapacityNeverExceeded ==
  Dispatched =>
    /\ CapacityBound(q_dispatcher, LenQ)
    /\ CapacityBound(k_dispatcher, LenK)

\* a bucket that more queries request than the capacity allows, filled up
C1_Witness ==
  /\ Dispatched
  /\ \E e \in Range0(q_dispatcher.num_experts) :
       /\ Cardinality(Assigned(gates_q, LenQ, e)) > q_dispatcher.expert_capacity
       /\ Cardinality(Placed(q_dispatcher, e)) = q_dispatcher.expert_capacity
       /\ q_dispatcher.expert_capacity >= 1

DropLast(d, requests, len) ==
  \A e \in Range0(d.num_experts) :
    LET kept == FirstAssigned(requests, len, e, d.expert_capacity)
    IN /\ Cardinality(kept) = Min(Cardinality(Assigned(requests, len, e)),
                                  d.expert_capacity)
       /\ \A s \in Range0(d.expert_capacity) :
            IF s < Cardinality(kept)
            THEN /\ d.nonpadding[e][s] = 1
                 /\ d.indices[e][s] \in kept
                 /\ Cardinality({j \in kept : j < d.indices[e][s]}) = s
            ELSE d.nonpadding[e][s] = 0
       /\ \A i \in Range0(len) : d.gates[i][e] = 1 <=> i \in kept

\* C2: every bucket holds exactly the first min(load, capacity) tokens that
\* request it, in increasing original order; the later ones are dropped and
\* nothing is raised; 10 tokens sent round-robin to 4 groups of capacity 3
\* land in {0,4,8}, {1,5,9}, {2,6}, {3,7}
C2_DropLastInOrder ==
  Dispatched =>
    /\ err = "None"
    /\ DropLast(q_dispatcher, gates_q, LenQ)
    /\ DropLast(k_dispatcher, gates_k, LenK)
    /\ inp = RoundRobinInput =>
         /\ q_dispatcher.expert_capacity = 3
         /\ Placed(q_dispatcher, 0) = {0, 4, 8}
         /\ Placed(q_dispatcher, 1) = {1, 5, 9}
         /\ Placed(q_dispatcher, 2) = {2, 6}
         /\ Placed(q_dispatcher, 3) = {3, 7}
         /\ q_dispatcher.indices[0] = [s \in Range0(3) |-> 4 * s]

\* a key bucket that drops its last token and keeps the earlier ones
C2_Witness ==
  /\ Dispatched /\ pc = "done"
  /\ \E e \in Range0(k_dispatcher.num_experts) :
       \E i \in Assigned(gates_k, LenK, e) :
         /\ i \notin Placed(k_dispatcher, e)
         /\ Placed(k_dispatcher, e) # {}
         /\ \A j \in Placed(k_dispatcher, e) : j < i

\* the tokens of the queries that no bucket holds after the dispatch
Dropped(d, len) == {i \in Range0(len) : \A e \in Range0(d.num_experts) : d.gates[i][e] = 0}

\* combine(dispatch(batch)) for the dispatcher of the queries
RoundTrip ==
  IF Truncating THEN combine(q_dispatcher, dispatched_q, LenQ)
  ELSE sparse_combine(q_dispatcher, dispatched_q, LenQ)

\* C3: with the one-hot gates of the queries, combine(dispatch(batch)) is the
\* batch, row for row, on every token that was not dropped, hence on the
\* whole batch when no bucket overflows (and always without truncation)
C3_RoundTrip ==
  /\ Dispatched =>
       /\ \A i \in Range0(LenQ) \ Dropped(q_dispatcher, LenQ) :
            RoundTrip[i] = eye(LenQ)[i]
       /\ (\A e \in Range0(q_dispatcher.num_experts) :
             Cardinality(Assigned(gates_q, LenQ, e)) <= q_dispatcher.expert_capacity)
            => RoundTrip = eye(LenQ)
  /\ (inp.fn = "sparse" /\ pc \notin {"call", "single_head"}) =>
       RoundTrip = eye(LenQ)

\* an overflowing bucket: a later token is dropped, the earlier ones survive
\* the round trip
C3_Witness ==
  /\ Dispatched
  /\ \E i \in Dropped(q_dispatcher, LenQ) :
       \E j \in Range0(LenQ) \ Dropped(q_dispatcher, LenQ) :
         /\ j < i
         /\ RoundTrip[j] = eye(LenQ)[j]
         /\ RoundTrip[i] # eye(LenQ)[i]

\* C4: the result of both truncating paths has one row per query position,
\* and the row of a query that no bucket holds is the zero vector
C4_ZeroRowWhenDropped ==
  (Truncating /\ pc = "done") =>
    /\ DOMAIN out = Range0(LenQ)
    /\ \A i \in Dropped(q_dispatcher, LenQ) : out[i] = zeros(LenK)

\* a query truncated out of its bucket next to one that attends to a key
C4_Witness ==
  /\ Truncating /\ pc = "done"
  /\ \E i \in Dropped(q_dispatcher, LenQ) :
       /\ \E e \in Range0(q_dispatcher.num_experts) : gates_q[i][e] = 1
       /\ out[i] = zeros(LenK)
       /\ \E j \in Range0(LenQ) : out[j] # zeros(LenK)

\* the dispatchers of a truncating call have just been built
JustDispatched == Truncating /\ pc \in {"batched_bias", "grouped_bias"}

\* the bucket assignments an input of the same length could have had
OtherAssignments == [Range0(inp.length) -> Range0(Pow2(inp.nb_hyperplanes))]

\* the shape [num_buckets, capacity, depth] of a dispatched tensor
DispatchedShape(tensor, num_buckets, capacity, depth) ==
  /\ DOMAIN tensor = Range0(num_buckets)
  /\ \A e \in Range0(num_buckets) :
       /\ DOMAIN tensor[e] = Range0(capacity)
       /\ \A s \in Range0(capacity) : DOMAIN tensor[e][s] = Range0(depth)

\* C5: the capacity, hence the shape of what dispatch returns, is a
\* function of the length and the hyperparameters alone: with nb buckets,
\* min(length, length div nb * 2) for the queries and
\* min(length, (length + nb - 1) div nb * 2) for the keys with the first
\* position in every bucket; in grouped_attention_multihead the two
\* capacities computed from the lengths, num_groups and the overheads
C5_ShapeIndependentOfContent ==
  JustDispatched =>
    /\ DispatchedShape(dispatched_q, q_dispatcher.num_experts,
                       q_dispatcher.expert_capacity, LenQ)
    /\ inp.fn = "truncated" =>
         LET nb == Pow2(inp.nb_hyperplanes)
         IN /\ q_dispatcher.num_experts = nb
            /\ k_dispatcher.num_experts = nb
            /\ q_dispatcher.expert_capacity
                 = Min(inp.length, (inp.length \div nb) * 2)
            /\ k_dispatcher.expert_capacity
                 = Min(inp.length, ((inp.length + nb - 1) \div nb) * 2)
    /\ inp.fn = "grouped" =>
         /\ q_dispatcher.num_experts = inp.num_groups
         /\ k_dispatcher.num_experts = inp.num_groups
         /\ q_dispatcher.expert_capacity
              = grouped_capacity_q(inp.length_q, inp.num_groups, inp.overheads)
         /\ k_dispatcher.expert_capacity
              = grouped_capacity_m(inp.length_kv, inp.num_groups, inp.overheads)

\* two inputs of one length whose buckets are filled differently: one
\* overflows a bucket, the other spreads its queries
C5_Witness ==
  /\ JustDispatched /\ inp.fn = "truncated"
  /\ q_dispatcher.expert_capacity >= 1
  /\ \E e \in Range0(q_dispatcher.num_experts) :
       Cardinality(Assigned(gates_q, LenQ, e)) > q_dispatcher.expert_capacity
  /\ \E alt \in OtherAssignments :
       LET g == get_gates_head(alt, inp.length, Pow2(inp.nb_hyperplanes), FALSE)
       IN /\ \A e \in Range0(q_dispatcher.num_experts) :
               Cardinality(Assigned(g, LenQ, e)) <= q_dispatcher.expert_capacity
          /\ get_dispatcher(g, inp.length, Pow2(inp.nb_hyperplanes)).expert_capacity
               = q_dispatcher.expert_capacity

\* the key slots of bucket e that hold a key, and those that are padding
RealKeys(e) == {t \in Range0(k_dispatcher.expert_capacity) :
                  k_dispatcher.nonpadding[e][t] = 1}

PaddingKeys(e) == Range0(k_dispatcher.expert_capacity) \ RealKeys(e)

\* C6: every padding key slot carries the bias -1e9 and no real key slot
\* carries any from the padding; a query of a bucket that holds a real key
\* gives the padding slots the weight zero
C6_PaddingMasked ==
  /\ Biased =>
       \A e \in Range0(k_dispatcher.num_experts) :
         /\ \A t \in PaddingKeys(e) :
              /\ padding_bias(k_dispatcher)[e][t] = -Big
              /\ \A s \in Range0(q_dispatcher.expert_capacity) :
                   bias[e][s][t] <= -Big
         /\ \A t \in RealKeys(e) :
              /\ padding_bias(k_dispatcher)[e][t] = 0
              /\ \A s \in Range0(q_dispatcher.expert_capacity) :
                   bias[e][s][t] \in {0, -Big}
                   /\ (~inp.mask_right => bias[e][s][t] = 0)
  /\ Attended =>
       \A e \in Range0(k_dispatcher.num_experts) :
         RealKeys(e) # {} =>
           \A s \in Range0(q_dispatcher.expert_capacity) :
             \A t \in PaddingKeys(e) : weights[e][s][t] = 0

\* a bucket with a real key and a padding slot: the query's weight is on the
\* key and not on the padding
C6_Witness ==
  /\ Attended
  /\ \E e \in Range0(k_dispatcher.num_experts) :
       \E s \in Range0(q_dispatcher.expert_capacity) :
         /\ q_dispatcher.nonpadding[e][s] = 1
         /\ \E t \in PaddingKeys(e) :
              bias[e][s][t] = -Big /\ weights[e][s][t] = 0
         /\ \E t \in RealKeys(e) :
              bias[e][s][t] = 0 /\ weights[e][s][t] = 1

\* C7: with mask_right a key slot of a bucket is unmasked for a query slot
\* only if it holds a key at the query's position or before it, the query
\* gives weight to such keys only, and the result row of a query has nothing
\* of a value at a later position; attention_bias_future's condition masks
\* exactly the later positions
C7_NoAttentionToFuture ==
  /\ (Biased /\ inp.mask_right) =>
       \A e \in Range0(k_dispatcher.num_experts) :
         \A s \in Range0(q_dispatcher.expert_capacity) :
           \A t \in Range0(k_dispatcher.expert_capacity) :
             bias[e][s][t] = 0 =>
               /\ t \in RealKeys(e)
               /\ k_dispatcher.indices[e][t] <= q_dispatcher.indices[e][s]
  /\ (Attended /\ inp.mask_right) =>
       \A e \in Range0(k_dispatcher.num_experts) :
         \A s \in Range0(q_dispatcher.expert_capacity) :
           \A t \in Range0(k_dispatcher.expert_capacity) :
             (q_dispatcher.nonpadding[e][s] = 1 /\ weights[e][s][t] = 1) =>
               /\ t \in RealKeys(e)
               /\ k_dispatcher.indices[e][t] <= q_dispatcher.indices[e][s]
  /\ (Truncating /\ pc = "done" /\ inp.mask_right) =>
       \A i \in Range0(LenQ) : \A j \in Range0(LenK) :
         out[i][j] # 0 => j <= i
  /\ (inp.fn = "sparse" /\ inp.order_given) =>
       \A i, j \in Range0(inp.length) :
         future_condition_fn(bi_order.val[j] - bi_order.val[i]) = 0 <=> j <= i

\* a causal call in which a bucket holds a query and a later key: the key is
\* masked, and the query's result comes from an earlier position
C7_Witness ==
  /\ Truncating /\ pc = "done" /\ inp.mask_right
  /\ \E e \in Range0(k_dispatcher.num_experts) :
       \E s \in Range0(q_dispatcher.expert_capacity) :
         \E t \in RealKeys(e) :
           /\ q_dispatcher.nonpadding[e][s] = 1
           /\ k_dispatcher.indices[e][t] > q_dispatcher.indices[e][s]
           /\ bias[e][s][t] = -Big
           /\ weights[e][s][t] = 0
           /\ \E j \in Range0(LenK) :
                /\ j <= q_dispatcher.indices[e][s]
                /\ out[q_dispatcher.indices[e][s]][j] # 0

\* C8: a bucket of the non-truncating path without queries or without keys
\* gets the all-zero [length_q, depth_v] result of is_zero, an expert that
\* receives no token returns the empty result, and neither call raises
C8_ZeroLengthShortCircuit ==
  /\ (inp.fn = "sparse" /\ pc \in {"done", "raised"}) =>
       \A e \in Range0(q_dispatcher.num_experts) :
         LET length_q == Cardinality(DOMAIN q_dispatcher.indices[e])
             length_k == Cardinality(DOMAIN k_dispatcher.indices[e])
         IN (length_q = 0 \/ length_k = 0) =>
              /\ err = "None"
              /\ v_out[e].err = "None"
              /\ v_out[e].branch = "is_zero"
              /\ v_out[e].val = [i \in Range0(length_q) |-> zeros(inp.length)]
  /\ (inp.fn = "expert" /\ inp.length = 0 /\ pc \in {"done", "raised"}) =>
       /\ err = "None"
       /\ v_out.branch = "empty_out"

\* the number of buckets a row of gates assigns its token to
Buckets(row) == Cardinality({e \in DOMAIN row : row[e] = 1})

\* every entry of the gates is 0 or 1
ZeroOne(g) == \A i \in DOMAIN g : \A e \in DOMAIN g[i] : g[i][e] \in {0, 1}

Projection(i) ==
  [h \in Range0(inp.nb_hyperplanes) |->
     SumFn([d \in Range0(inp.depth) |-> inp.x[i][d] * inp.t_vectors[d][h]],
           Range0(inp.depth))]

\* the integer whose nb_hyperplanes binary digits, most significant first,
\* are 1 where the projection of token i is positive
BitPattern(i) ==
  SumFn([h \in Range0(inp.nb_hyperplanes) |->
           IF Projection(i)[h] > 0
           THEN Pow2(inp.nb_hyperplanes - 1 - h) ELSE 0],
        Range0(inp.nb_hyperplanes))

MaxCalls == 3

MaxTok == 2

MaxPos == 2

MaxDepth == 3

MaxHeads == 2

\* the kernels of the q, k and v projections of compute_qkv, one batch
\* element, one head and depth 1: a position is a number
Kernels == [q |-> 1, k |-> 2, v |-> 3]

\* compute_qkv(query_antecedent, None, ...) for the one position the call
\* passes
compute_qkv(token) ==
  [q |-> token * Kernels.q, k |-> token * Kernels.k, v |-> token * Kernels.v]

\* a check of the key depth alone
depth_check_key_only(total_key_depth, total_value_depth, num_heads) ==
  IF total_key_depth % num_heads # 0 THEN "ValueError" ELSE "None"

\* the check every multihead function starts with
depth_check(total_key_depth, total_value_depth, num_heads) ==
  IF total_key_depth % num_heads # 0 THEN "ValueError"
  ELSE IF total_value_depth % num_heads # 0 THEN "ValueError"
  ELSE "None"

\* multihead_attention, lines 4625-4641: the checks on layer_collection and
\* recurrent_memory
kfac_and_memory_check(a) ==
  IF a.layer_collection /\ a.cache_given THEN "ValueError"
  ELSE IF a.layer_collection /\ a.vars_3d THEN "ValueError"
  ELSE IF ~a.recurrent_memory THEN "None"
  ELSE IF a.memory_antecedent THEN "ValueError"
  ELSE IF a.cache_given THEN "ValueError"
  ELSE IF a.vars_3d THEN "ValueError"
  ELSE IF a.layer_collection THEN "ValueError"
  ELSE IF ~a.chunk_number THEN "ValueError"
  ELSE "None"

\* a check of the attention type alone
cache_check_type_only(a) ==
  IF a.attention_type \notin {"dot_product", "dot_product_relative"}
  THEN "NotImplementedError"
  ELSE "None"

\* multihead_attention, lines 4661-4670: the checks made when a cache is given
cache_check(a) ==
  IF a.attention_type \notin {"dot_product", "dot_product_relative"}
  THEN "NotImplementedError"
  ELSE IF ~a.bias THEN "ValueError"
  ELSE "None"

\* the result of a call that raises: nothing returned, the cache as it is
raised(e, c, done) == [err |-> e, cache |-> c, effects |-> done, out |-> None]

\* a cache that keeps the latest position alone
cache_replace(old, item) == <<item>>

\* lines 4684-4685: tf.concat([cache, item], axis=2)
cache_concat(old, item) == Append(old, item)

\* tf.scatter_nd([[step]], item, shape): zeros with item at position step
scatter_nd(step, item, length) ==
  [p \in 1 .. length |-> IF p = step + 1 THEN item ELSE 0]

\* an update that overwrites position step with item
inplace_update(old, step, item) ==
  [p \in 1 .. Len(old) |-> IF p = step + 1 THEN item ELSE old[p]]

\* lines 4687-4693: tf.add(cache, tf.scatter_nd(...))
add_scatter_update(old, step, item) ==
  [p \in 1 .. Len(old) |-> old[p] + scatter_nd(step, item, Len(old))[p]]

\* multihead_attention(query_antecedent, ..., cache=c, **kwargs) with the
\* arguments a: the exception, the cache afterwards, the steps taken and the
\* result (the query with the keys and values the attention sees)
multihead_attention(a, c) ==
  LET e1 == depth_check(a.total_key_depth, a.total_value_depth, a.num_heads)
      e2 == kfac_and_memory_check(a)
      pre == <<"variable_scope">>
             \o (IF a.recurrent_memory THEN <<"pre_attention">> ELSE <<>>)
             \o (IF ~a.cache_given \/ ~a.memory_antecedent
                 THEN <<"compute_qkv">> ELSE <<>>)
      qkv == compute_qkv(a.token)
      e3 == IF a.cache_given THEN cache_check(a) ELSE "None"
      self == a.cache_given /\ ~a.memory_antecedent
      c2 == IF ~self THEN c
            ELSE IF ~a.loop_step_given
            THEN [c EXCEPT !.k = cache_concat(c.k, qkv.k),
                            !.v = cache_concat(c.v, qkv.v)]
            ELSE [c EXCEPT
                    !.k = add_scatter_update(c.k, a.decode_loop_step, qkv.k),
                    !.v = add_scatter_update(c.v, a.decode_loop_step, qkv.v)]
      k == IF ~a.cache_given THEN <<qkv.k>>
           ELSE IF a.memory_antecedent THEN c.k_encdec ELSE c2.k
      v == IF ~a.cache_given THEN <<qkv.v>>
           ELSE IF a.memory_antecedent THEN c.v_encdec ELSE c2.v
      mid == pre
             \o (IF a.cache_given /\ a.memory_antecedent
                 THEN <<"compute_q">> ELSE <<>>)
             \o (IF self THEN <<"cache_write">> ELSE <<>>)
  IN IF e1 # "None" THEN raised(e1, c, <<>>)
     ELSE IF e2 # "None" THEN raised(e2, c, <<>>)
     ELSE IF e3 # "None" THEN raised(e3, c, pre)
     ELSE IF a.attention_type = "dot_product_relative"
             /\ a.max_relative_position = 0
     THEN raised("ValueError", c2, mid)
     ELSE [err |-> "None", cache |-> c2,
           effects |-> mid \o <<"attention", "output_transform">>
                       \o (IF a.recurrent_memory
                           THEN <<"post_attention">> ELSE <<>>),
           out |-> [q |-> qkv.q, k |-> k, v |-> v]]

\* grouped_attention_multihead up to its result: three static shape reads,
\* the two checks, then the transformations and the attention
grouped_attention_multihead(a, c) ==
  LET reads == <<"shape_list", "shape_list", "shape_list">>
      e1 == depth_check(a.total_key_depth, a.total_value_depth, a.num_heads)
  IN IF e1 # "None" THEN raised(e1, c, reads)
     ELSE [err |-> "None", cache |-> c,
           effects |-> reads \o <<"variable_scope", "q_transform",
                                  "kv_transform", "attention",
                                  "output_transform">>,
           out |-> [q |-> a.token * Kernels.q,
                    k |-> <<a.token * Kernels.k>>,
                    v |-> <<a.token * Kernels.v>>]]

\* multihead_attention_2d: the two checks, then compute_qkv and the attention
multihead_attention_2d(a, c) ==
  LET e1 == depth_check(a.total_key_depth, a.total_value_depth, a.num_heads)
      qkv == compute_qkv(a.token)
  IN IF e1 # "None" THEN raised(e1, c, <<>>)
     ELSE [err |-> "None", cache |-> c,
           effects |-> <<"variable_scope", "compute_qkv", "attention",
                         "output_transform">>,
           out |-> [q |-> qkv.q, k |-> <<qkv.k>>, v |-> <<qkv.v>>]]

\* multihead_attention_nd without decode_step: the two checks, compute_qkv,
\* the cache initialised with the keys and values, then the masked attention
multihead_attention_nd(a, c) ==
  LET e1 == depth_check(a.total_key_depth, a.total_value_depth, a.num_heads)
      qkv == compute_qkv(a.token)
      c2 == IF a.cache_given THEN [c EXCEPT !.k = <<qkv.k>>, !.v = <<qkv.v>>]
            ELSE c
      pre == <<"variable_scope", "compute_qkv">>
             \o (IF a.cache_given THEN <<"cache_write">> ELSE <<>>)
  IN IF e1 # "None" THEN raised(e1, c, <<>>)
     ELSE IF ~a.masked THEN raised("NotImplementedError", c2, pre)
     ELSE [err |-> "None", cache |-> c2,
           effects |-> pre \o <<"attention", "output_transform">>,
           out |-> [q |-> qkv.q, k |-> <<qkv.k>>, v |-> <<qkv.v>>]]

\* the four multihead functions by name
MultiheadFns ==
  {"multihead_attention", "grouped_attention_multihead",
   "multihead_attention_2d", "multihead_attention_nd"}

\* the call of the function a.fn with the arguments a and the cache dict c
attention_call(a, c) ==
  CASE a.fn = "multihead_attention" -> multihead_attention(a, c)
    [] a.fn = "grouped_attention_multihead" -> grouped_attention_multihead(a, c)
    [] a.fn = "multihead_attention_2d" -> multihead_attention_2d(a, c)
    [] a.fn = "multihead_attention_nd" -> multihead_attention_nd(a, c)

\* the tokens a query position can carry
Toks == 1 .. MaxTok

\* the arguments of a call that has every optional argument at its default
DefaultArgs ==
  [fn |-> "multihead_attention", token |-> 1,
   total_key_depth |-> 1, total_value_depth |-> 1, num_heads |-> 1,
   cache_given |-> FALSE, memory_antecedent |-> FALSE, bias |-> TRUE,
   attention_type |-> "dot_product", max_relative_position |-> 0,
   recurrent_memory |-> FALSE, vars_3d |-> FALSE, layer_collection |-> FALSE,
   chunk_number |-> FALSE, loop_step_given |-> FALSE, decode_loop_step |-> 0,
   masked |-> FALSE]

\* decoder self-attention steps on the shared cache c: one query position,
\* appended or, with decode_loop_step, written at a position of the cache
DecodeArgs(c) ==
  {[DefaultArgs EXCEPT !.cache_given = TRUE, !.token = t] : t \in Toks}
  \cup {[DefaultArgs EXCEPT !.cache_given = TRUE, !.token = t,
                            !.loop_step_given = TRUE, !.decode_loop_step = s]
          : t \in Toks, s \in Range0(Len(c.k))}

\* calls with the arguments the checks look at: every combination of cache,
\* memory_antecedent, bias and attention_type; with recurrent_memory, every
\* combination of the arguments it excludes; with layer_collection, every
\* combination of cache and vars_3d
GuardArgs ==
  {[DefaultArgs EXCEPT !.cache_given = g[1], !.memory_antecedent = g[2],
                       !.bias = g[3], !.attention_type = ty,
                       !.max_relative_position = 1]
     : g \in [1 .. 3 -> BOOLEAN],
       ty \in {"dot_product", "dot_product_relative", "local_mask_right",
               "callable"}}
  \cup
  {[DefaultArgs EXCEPT !.recurrent_memory = TRUE, !.cache_given = g[1],
                       !.memory_antecedent = g[2], !.vars_3d = g[3],
                       !.layer_collection = g[4], !.chunk_number = g[5],
                       !.bias = g[6]]
     : g \in [1 .. 6 -> BOOLEAN]}
  \cup
  {[DefaultArgs EXCEPT !.layer_collection = TRUE, !.cache_given = g[1],
                       !.vars_3d = g[2], !.attention_type = ty]
     : g \in [1 .. 2 -> BOOLEAN], ty \in {"dot_product", "callable"}}

\* relative attention called without max_relative_position
RelativeArgs ==
  {[DefaultArgs EXCEPT !.cache_given = g, !.token = t,
                       !.attention_type = "dot_product_relative"]
     : g \in BOOLEAN, t \in Toks}

\* calls of the four functions with every combination of depths and heads,
\* with and without cache (the two functions that take one)
DepthArgs ==
  {a \in {[DefaultArgs EXCEPT !.fn = f, !.total_key_depth = dk,
                              !.total_value_depth = dv, !.num_heads = h,
                              !.cache_given = g, !.masked = m]
            : f \in MultiheadFns, dk \in 1 .. MaxDepth, dv \in 1 .. MaxDepth,
              h \in 1 .. MaxHeads, g \in BOOLEAN, m \in BOOLEAN}
     : /\ a.masked => a.fn = "multihead_attention_nd"
       /\ a.cache_given
            => a.fn \in {"multihead_attention", "multihead_attention_nd"}}

\* the variables of the sparse attention pipeline, unused here
pipeline == <<gates_q, gates_k, q_dispatcher, k_dispatcher, dispatched_q,
              bias, weights, v_out, x, expert_count, function_cache>>

\* the caller's cache dict before the first call: the k and v of the decoder
\* empty or preallocated with zeros, the encoder-decoder entries computed
InitMha ==
  /\ pc = "idle"
  /\ inp = None /\ out = None /\ err = "None" /\ effects = <<>> /\ calls = 0
  /\ \E n \in {0, MaxPos} :
       cache = [k |-> [p \in 1 .. n |-> 0], v |-> [p \in 1 .. n |-> 0],
                k_encdec |-> <<Kernels.k>>, v_encdec |-> <<Kernels.v>>]
  /\ gates_q = None /\ gates_k = None
  /\ q_dispatcher = None /\ k_dispatcher = None
  /\ dispatched_q = None /\ bias = None /\ weights = None /\ v_out = None
  /\ x = None /\ expert_count = 0 /\ function_cache = <<>>

\* a call of multihead_attention with the arguments a by the holder of the
\* cache dict
Call(a) ==
  LET r == attention_call(a, cache)
  IN /\ inp' = a
     /\ err' = r.err
     /\ cache' = r.cache
     /\ effects' = r.effects
     /\ out' = r.out
     /\ calls' = calls + 1
     /\ UNCHANGED pipeline

\* a step of the decoding loop
MhaDecodeStep ==
  /\ calls < MaxCalls
  /\ \E a \in DecodeArgs(cache) : Call(a)
  /\ pc' = "decoded"

\* a call with other arguments, before or between the steps of the loop
MhaCall ==
  /\ calls < MaxCalls
  /\ pc # "called"
  /\ \E a \in GuardArgs \cup RelativeArgs \cup DepthArgs : Call(a)
  /\ pc' = "called"

NextMha ==
  \/ MhaDecodeStep
  \/ MhaCall

SpecMha == InitMha /\ [][NextMha]_vars

\* the steps that compute q, k or v, write the cache or create a variable
Effectful ==
  {"variable_scope", "pre_attention", "compute_qkv", "compute_q",
   "q_transform", "kv_transform", "cache_write", "attention",
   "output_transform", "post_attention"}

\* the elements of a sequence
Elems(seq) == {seq[i] : i \in 1 .. Len(seq)}

\* C11: each of multihead_attention, grouped_attention_multihead,
\* multihead_attention_2d and multihead_attention_nd raises ValueError when
\* total_key_depth or total_value_depth is not divisible by num_heads, and
\* does so before any other effect: no q, k or v is computed, the cache is
\* as it was and no variable is created.
C11_DepthCheckedFirst ==
  [][(/\ calls' # calls
      /\ \/ inp'.total_key_depth % inp'.num_heads # 0
         \/ inp'.total_value_depth % inp'.num_heads # 0)
       => /\ err' = "ValueError"
          /\ out' = None
          /\ cache' = cache
          /\ Elems(effects') \cap Effectful = {}]_vars

C11_Witness ==
  /\ pc = "called"
  /\ inp.fn = "multihead_attention_nd"
  /\ inp.cache_given
  /\ inp.total_key_depth % inp.num_heads = 0
  /\ inp.total_value_depth % inp.num_heads # 0
  /\ err = "ValueError"

\* ------------------------------------------- argument checks of two more functions
\* an optional integer argument: <<>> is Python's None, <<n>> the integer n
Some(n) == <<n>>

\* Python's `not o` for an optional integer
falsy(o) == o = <<>> \/ o[1] = 0

\* the largest max_relative_position passed
MaxRel == 2

\* a test of max_relative_position against None alone
none_only(o) == o = <<>>

\* dot_product_attention_relative, line 1793: `not max_relative_position`
not_max_relative_position(o) == falsy(o)

\* dot_product_attention_relative(q, k, v, bias, max_relative_position)
dot_product_attention_relative(a) ==
  IF not_max_relative_position(a.max_relative_position)
  THEN [err |-> "ValueError", effects |-> <<>>, out |-> None]
  ELSE [err |-> "None",
        effects |-> <<"variable_scope", "relative_embeddings", "attention">>,
        out |-> [q |-> a.token * Kernels.q, k |-> <<a.token * Kernels.k>>,
                 v |-> <<a.token * Kernels.v>>]]

\* a reduction of the memory that accepts any reduction_type as "conv"
reduce_memory_any(reduction_type) ==
  IF reduction_type = "attention" THEN "local_reduction_attention"
  ELSE "conv_elems_1d"

\* multihead_self_attention_reduced, lines 6025-6031: the reduction of the
\* memory chosen by reduction_type
reduce_memory(reduction_type) ==
  IF reduction_type = "attention" THEN "local_reduction_attention"
  ELSE IF reduction_type = "conv" THEN "conv_elems_1d"
  ELSE "ValueError"

\* conv_elems_1d(x, factor), lines 5888-5897: a convolution of kernel and
\* stride factor with "valid" padding; each output position is given as the
\* set of input positions it is computed from
conv_elems_1d(length, factor) ==
  [m \in Range0(length \div factor) |->
     {m * factor + d : d \in Range0(factor)}]

\* local_reduction_attention(x, block_length, multihead_params), lines
\* 5930-5945 and 5967-5972: the length is padded to a multiple of
\* block_length and each block is reduced to one position
local_reduction_attention(length, block_length) ==
  LET padding == (block_length - (length % block_length)) % block_length
  IN [m \in Range0((length + padding) \div block_length) |->
        {p \in Range0(length) : p \div block_length = m}]

\* lines 6038-6043: tf.concat([x[:, :1, :], memory_x], axis=1)
concat_first(memory) ==
  [j \in Range0(1 + Cardinality(DOMAIN memory)) |->
     IF j = 0 THEN {0} ELSE memory[j - 1]]

\* construct_bias_vectors(t, axis), lines 6047-6052: tf.range(length)
construct_bias_vectors(length) == [p \in Range0(length) |-> p]

\* a mask that compares the slot with the query position, without the factor
reduced_bias_unscaled(length_q, length_k, factor) ==
  [i \in Range0(length_q) |->
     [j \in Range0(length_k) |-> IF j > i THEN 0 - Big ELSE 0]]

\* lines 6055-6065: to_float(tf.greater(k_coordinates * factor,
\* q_coordinates + 1e-3)) * -1e9, broadcast to [length_q, length_k]; the
\* comparison is made in thousandths
reduced_bias(length_q, length_k, factor) ==
  LET k_coordinates == construct_bias_vectors(length_k)
      q_coordinates == construct_bias_vectors(length_q)
  IN [i \in Range0(length_q) |->
        [j \in Range0(length_k) |->
           IF k_coordinates[j] * factor * 1000 > q_coordinates[i] * 1000 + 1
           THEN 0 - Big ELSE 0]]

\* multihead_self_attention_reduced(x, memory_antecedent, bias, factor,
\* multihead_params, nonlinearity, reduction_type, add_mask); multihead_params
\* is "None", "empty" ({}) or "set"; the memory has the first position and one
\* position per block of factor positions
multihead_self_attention_reduced(a, c) ==
  LET reduction == reduce_memory(a.reduction_type)
      memory_x == concat_first(
                    IF reduction = "local_reduction_attention"
                    THEN local_reduction_attention(a.length, a.factor[1])
                    ELSE conv_elems_1d(a.length, a.factor[1]))
      memory_length == Cardinality(DOMAIN memory_x)
      mask == IF a.add_mask
              THEN reduced_bias(a.length, memory_length, a.factor[1])
              ELSE None
      inner == multihead_attention(
                 [DefaultArgs EXCEPT !.memory_antecedent = TRUE,
                                     !.bias = a.add_mask], c)
  IN IF falsy(a.factor) \/ a.multihead_params \in {"None", "empty"}
     THEN [err |-> "ValueError", effects |-> <<>>, out |-> None]
     ELSE IF a.memory_antecedent
     THEN [err |-> "NotImplementedError", effects |-> <<>>, out |-> None]
     ELSE IF reduction = "ValueError"
     THEN [err |-> "ValueError", effects |-> <<>>, out |-> None]
     ELSE IF a.nonlinearity \notin {"silu", "none"}
     THEN [err |-> "ValueError", effects |-> <<reduction>>, out |-> None]
     ELSE [err |-> inner.err,
           effects |-> <<reduction>>
                       \o (IF a.nonlinearity = "silu"
                           THEN <<"sigmoid">> ELSE <<>>)
                       \o <<"concat">> \o inner.effects,
           out |-> [attention |-> inner.out, memory_length |-> memory_length,
                    memory_x |-> memory_x, bias |-> mask]]

\* the arguments of multihead_self_attention_reduced, the factor at most the
\* length
ReducedArgs ==
  {[fn |-> "multihead_self_attention_reduced", length |-> n[1],
    factor |-> n[2],
    multihead_params |-> mp, memory_antecedent |-> m, nonlinearity |-> nl,
    reduction_type |-> rt, add_mask |-> am]
     : n \in {<<l, f>> \in (1 .. MaxPos)
                             \X ({<<>>} \cup {Some(i) : i \in 0 .. MaxPos})
                : f = <<>> \/ f[1] <= l},
       mp \in {"None", "empty", "set"}, m \in BOOLEAN,
       nl \in {"none", "silu", "relu"},
       rt \in {"conv", "attention", "mean"}, am \in BOOLEAN}

\* the arguments of dot_product_attention_relative
RelativeAttentionArgs ==
  {[fn |-> "dot_product_attention_relative", token |-> t,
    max_relative_position |-> m]
     : t \in Toks, m \in {<<>>} \cup {Some(i) : i \in 0 .. MaxRel}}

InitChecks ==
  /\ pc = "idle"
  /\ inp = None /\ out = None /\ err = "None" /\ effects = <<>> /\ calls = 0
  /\ cache = None
  /\ gates_q = None /\ gates_k = None
  /\ q_dispatcher = None /\ k_dispatcher = None
  /\ dispatched_q = None /\ bias = None /\ weights = None /\ v_out = None
  /\ x = None /\ expert_count = 0 /\ function_cache = <<>>

\* a call of multihead_self_attention_reduced
ReducedCall ==
  /\ calls < MaxCalls
  /\ \E a \in ReducedArgs :
       LET r == multihead_self_attention_reduced(a, cache)
       IN inp' = a /\ err' = r.err /\ effects' = r.effects /\ out' = r.out
  /\ calls' = calls + 1
  /\ pc' = "reduced"
  /\ UNCHANGED <<pipeline, cache>>

\* a call of dot_product_attention_relative
RelativeCall ==
  /\ calls < MaxCalls
  /\ \E a \in RelativeAttentionArgs :
       LET r == dot_product_attention_relative(a)
       IN inp' = a /\ err' = r.err /\ effects' = r.effects /\ out' = r.out
  /\ calls' = calls + 1
  /\ pc' = "relative"
  /\ UNCHANGED <<pipeline, cache>>

NextChecks ==
  \/ ReducedCall
  \/ RelativeCall

SpecChecks == InitChecks /\ [][NextChecks]_vars

\* C12: multihead_self_attention_reduced raises ValueError when factor or
\* multihead_params is missing, otherwise NotImplementedError when a
\* memory_antecedent is given, otherwise ValueError for a reduction_type
\* other than "attention" or "conv" or a nonlinearity other than "silu" or
\* "none"; dot_product_attention_relative raises ValueError when
\* max_relative_position is None or 0; no attention result is returned in
\* any of these cases.
C12_ArgumentsRejected ==
  /\ pc = "reduced" =>
       LET missing == \/ inp.factor = <<>>
                      \/ inp.multihead_params = "None"
           bad == \/ inp.reduction_type \notin {"attention", "conv"}
                  \/ inp.nonlinearity \notin {"silu", "none"}
       IN /\ missing => err = "ValueError"
          /\ ~falsy(inp.factor) /\ inp.multihead_params = "set"
             /\ inp.memory_antecedent
               => err = "NotImplementedError"
          /\ ~falsy(inp.factor) /\ inp.multihead_params = "set"
             /\ ~inp.memory_antecedent /\ bad
               => err = "ValueError"
          /\ missing \/ inp.memory_antecedent \/ bad
               => err # "None" /\ out = None
  /\ pc = "relative" =>
       (inp.max_relative_position \in {<<>>, <<0>>}
          => err = "ValueError" /\ out = None)

C12_Witness ==
  /\ pc = "reduced"
  /\ inp.factor = Some(2) /\ inp.multihead_params = "set"
  /\ ~inp.memory_antecedent
  /\ inp.reduction_type = "conv" /\ inp.nonlinearity = "relu"
  /\ err = "ValueError" /\ out = None

\* a step that is a successful decoder self-attention call with the cache and
\* without decode_loop_step
AppendingCall ==
  /\ calls' # calls
  /\ inp'.fn = "multihead_attention"
  /\ inp'.cache_given /\ ~inp'.memory_antecedent /\ ~inp'.loop_step_given
  /\ err' = "None"

\* C13: in decoder self-attention with a cache and no decode_loop_step, each
\* call with one query position appends exactly one position to cache['k']
\* and cache['v']: the positions held before are unchanged, the new last
\* position is the key and value computed in the call, the attention of the
\* call sees the whole cache, and a cache that held i-1 positions after i-1
\* calls holds i positions after the i-th.
C13_CacheGrowsByOne ==
  [][AppendingCall
       => /\ Len(cache'.k) = Len(cache.k) + 1
          /\ Len(cache'.v) = Len(cache.v) + 1
          /\ SubSeq(cache'.k, 1, Len(cache.k)) = cache.k
          /\ SubSeq(cache'.v, 1, Len(cache.v)) = cache.v
          /\ cache'.k[Len(cache'.k)] = compute_qkv(inp'.token).k
          /\ cache'.v[Len(cache'.v)] = compute_qkv(inp'.token).v
          /\ out'.k = cache'.k /\ out'.v = cache'.v
          /\ (Len(cache.k) = calls => Len(cache'.k) = calls')]_vars

C13_Witness ==
  /\ pc = "decoded"
  /\ calls = 3
  /\ ~inp.loop_step_given /\ inp.token = 1
  /\ cache.k = <<compute_qkv(1).k, compute_qkv(2).k, compute_qkv(1).k>>
  /\ cache.v = <<compute_qkv(1).v, compute_qkv(2).v, compute_qkv(1).v>>

\* a step that is a call of multihead_attention with depths that num_heads
\* divides
CheckedCall ==
  /\ calls' # calls
  /\ inp'.fn = "multihead_attention"
  /\ inp'.total_key_depth % inp'.num_heads = 0
  /\ inp'.total_value_depth % inp'.num_heads = 0

\* the call passes a cache and comes to the checks made for it
CacheChecked ==
  inp'.cache_given /\ ~inp'.layer_collection /\ ~inp'.recurrent_memory

\* the call passes recurrent_memory with an argument it excludes
MemoryMisused ==
  /\ inp'.recurrent_memory
  /\ \/ inp'.memory_antecedent \/ inp'.cache_given \/ inp'.vars_3d
     \/ inp'.layer_collection \/ ~inp'.chunk_number

EmptyDict == [k \in {} |-> None]

\* dict(d, **e), functools.partial(f, **d)(**e): the later value wins
update(d, e) ==
  [k \in DOMAIN d \cup DOMAIN e |-> IF k \in DOMAIN e THEN e[k] ELSE d[k]]

\* the keyword arguments a call passes on top of the registered ones
call_kwargs(d, e) == update(d, e)

\* d without the key k (dict.pop)
pop(d, k) == [j \in DOMAIN d \ {k} |-> d[j]]

\* the hyperparameters the layers are built from
hparams ==
  [hidden_size |-> 4, num_heads |-> 2, attention_dropout |-> 0,
   attention_key_channels |-> 0, attention_value_channels |-> 0,
   attention_loc_block_length |-> 2, attention_loc_block_width |-> 2,
   attention_red_factor |-> 2, attention_red_nonlinearity |-> "none",
   attention_red_type |-> "conv", filter_size |-> 8, relu_dropout |-> 0]

\* lines 175-176: hparams.attention_key_channels or hparams.hidden_size
layers_key_depth ==
  IF hparams.attention_key_channels # 0 THEN hparams.attention_key_channels
  ELSE hparams.hidden_size

layers_value_depth ==
  IF hparams.attention_value_channels # 0
  THEN hparams.attention_value_channels
  ELSE hparams.hidden_size

\* the parameters without a default of the wrapped functions, after the
\* first (the input x)
Required ==
  [multihead_attention |->
     {"memory_antecedent", "bias", "total_key_depth", "total_value_depth",
      "output_depth", "num_heads", "dropout_rate"},
   multihead_self_attention_reduced |-> {},
   conv_hidden_relu |-> {"hidden_size", "output_size"}]

\* fct(x, *pos, **kw): pos holds the parameters bound by position after x;
\* the result is a tensor or, for an attention function that returns an
\* extra value, the tuple of the tensor and that value
call_fct(fct, pos, kw) ==
  IF DOMAIN pos \cap DOMAIN kw # {} THEN [err |-> "TypeError"]
  ELSE IF ~(Required[fct] \subseteq DOMAIN pos \cup DOMAIN kw)
  THEN [err |-> "TypeError"]
  ELSE [err |-> "None",
        tuple |-> /\ fct = "multihead_attention"
                  /\ "attention_type" \in DOMAIN kw
                  /\ kw["attention_type"] = "callable_with_loss",
        y |-> [fct |-> fct, args |-> update(pos, kw)],
        additional |-> "additional_returned_value"]

\* the decorator register_layer returns, called as decorator(x, *pos, **kw),
\* dp being None
decorator(fct_in, default_kwargs, pos, kw) ==
  LET y == call_fct(fct_in, pos, call_kwargs(default_kwargs, kw))
  IN IF y.err # "None" THEN [err |-> y.err, out |-> None]
     ELSE IF y.tuple
     THEN [err |-> "None",
           out |-> [y |-> y.y, extra_loss |-> y.additional]]
     ELSE [err |-> "None", out |-> [y |-> y.y, extra_loss |-> "0.0"]]

\* lines 181-191
multihead_attention_fn(kw) ==
  decorator("multihead_attention",
            [memory_antecedent |-> "None", bias |-> "None",
             total_key_depth |-> layers_key_depth,
             total_value_depth |-> layers_value_depth,
             output_depth |-> hparams.hidden_size,
             num_heads |-> hparams.num_heads,
             dropout_rate |-> hparams.attention_dropout],
            EmptyDict, kw)

\* lines 196-206, with recompute_grad: the keyword arguments are bound with
\* partial and the function called with the positional ones
memeff_attention_base_fn(pos, kw) ==
  decorator("multihead_attention",
            [total_key_depth |-> layers_key_depth,
             total_value_depth |-> layers_value_depth,
             output_depth |-> hparams.hidden_size,
             num_heads |-> hparams.num_heads,
             dropout_rate |-> hparams.attention_dropout],
            pos, kw)

\* lines 208-220
memeff_attention_fn(kw) ==
  LET memory_antecedent == IF "memory_antecedent" \in DOMAIN kw
                           THEN kw["memory_antecedent"] ELSE "x"
      kw1 == pop(kw, "memory_antecedent")
  IN IF "bias" \in DOMAIN kw1 /\ kw1["bias"] # "None"
     THEN memeff_attention_base_fn(
            [memory_antecedent |-> memory_antecedent, bias |-> kw1["bias"]],
            pop(kw1, "bias"))
     ELSE memeff_attention_base_fn(
            [memory_antecedent |-> memory_antecedent], kw1)

\* lines 225-230
local_attention_fn(kw) ==
  multihead_attention_fn(
    update([block_length |-> hparams.attention_loc_block_length,
            block_width |-> hparams.attention_loc_block_width,
            attention_type |-> "local_unmasked"], kw))

\* lines 235-239
local_attention_masked_fn(kw) ==
  multihead_attention_fn(
    update([block_length |-> hparams.attention_loc_block_length,
            attention_type |-> "local_mask_right"], kw))

\* lines 243-256
compressed_attention_masked_fn(kw) ==
  decorator("multihead_self_attention_reduced",
            [factor |-> hparams.attention_red_factor,
             nonlinearity |-> hparams.attention_red_nonlinearity,
             reduction_type |-> hparams.attention_red_type,
             multihead_params |-> "set"],
            EmptyDict, kw)

\* lines 260-263
compressed_attention_fn(kw) ==
  compressed_attention_masked_fn(update([add_mask |-> "False"], kw))

\* lines 268-275
conv_hidden_relu(kw) ==
  decorator("conv_hidden_relu",
            [hidden_size |-> hparams.filter_size,
             output_size |-> hparams.hidden_size,
             dropout |-> hparams.relu_dropout],
            EmptyDict, kw)

\* lines 279-285
sep_conv_relu(kw) ==
  conv_hidden_relu(update([padding |-> "SAME",
                           kernel_size |-> <<3, 1>>,
                           second_kernel_size |-> <<31, 1>>], kw))

\* lines 289-292
sep_conv_relu_masked(kw) == sep_conv_relu(update([padding |-> "LEFT"], kw))

\* cur_layers, lines 296-309
cur_layers(layer, kw) ==
  CASE layer = "a" -> multihead_attention_fn(kw)
    [] layer = "loc" -> local_attention_fn(kw)
    [] layer = "locm" -> local_attention_masked_fn(kw)
    [] layer = "red" -> compressed_attention_fn(kw)
    [] layer = "redm" -> compressed_attention_masked_fn(kw)
    [] layer = "mem" -> memeff_attention_fn(kw)
    [] layer = "fc" -> conv_hidden_relu(kw)
    [] layer = "sep" -> sep_conv_relu(kw)
    [] layer = "sepm" -> sep_conv_relu_masked(kw)

LayerNames == {"a", "loc", "locm", "red", "redm", "mem", "fc", "sep", "sepm"}

\* the values a call passes for a keyword
CallValues ==
  [bias |-> {"None", "bias_tensor"},
   memory_antecedent |-> {"memory"},
   attention_type |-> {"dot_product", "callable_with_loss"},
   name |-> {"layer_0"},
   nonlinearity |-> {"silu"},
   reduction_type |-> {"attention"},
   add_mask |-> {"True"},
   padding |-> {"VALID"}]

\* the keywords a call of a layer passes
CallKeys(layer) ==
  IF layer \in {"a", "loc", "locm", "mem"}
  THEN {"bias", "memory_antecedent", "attention_type", "name"}
  ELSE IF layer \in {"red", "redm"}
  THEN {"bias", "nonlinearity", "reduction_type", "add_mask"}
  ELSE {"padding"}

\* every choice of keyword arguments over the keys
Kwargs(keys) ==
  UNION {{kw \in [S -> UNION {CallValues[k] : k \in S}]
            : \A k \in S : kw[k] \in CallValues[k]} : S \in SUBSET keys}

InitLayers == InitChecks

\* fct(x, **kwargs) for a layer function fct of cur_layers
LayerCall ==
  /\ calls < MaxCalls
  /\ \E layer \in LayerNames : \E kw \in Kwargs(CallKeys(layer)) :
       LET r == cur_layers(layer, kw)
       IN /\ inp' = [layer |-> layer, kwargs |-> kw]
          /\ err' = r.err
          /\ out' = r.out
  /\ calls' = calls + 1
  /\ pc' = "layer"
  /\ UNCHANGED <<pipeline, cache, effects>>

NextLayers ==
  \/ LayerCall

SpecLayers == InitLayers /\ [][NextLayers]_vars

\* C15: every layer function returned by get_standardized_layers returns a
\* pair (y, extra_loss): the tuple of the wrapped function when it returns
\* one, otherwise its result with extra_loss 0.0; and every keyword argument
\* given at call time reaches the wrapped function with the value of the
\* call, whatever default was registered.
C15_LayersReturnPair ==
  pc = "layer" =>
    /\ err = "None"
    /\ DOMAIN out = {"y", "extra_loss"}
    /\ \A k \in DOMAIN inp.kwargs : out.y.args[k] = inp.kwargs[k]
    /\ out.extra_loss
         = IF /\ "attention_type" \in DOMAIN inp.kwargs
              /\ inp.kwargs["attention_type"] = "callable_with_loss"
           THEN "additional_returned_value" ELSE "0.0"

\* the same for the calls that return
C15_PairWhenReturned ==
  pc = "layer" /\ err = "None" =>
    /\ DOMAIN out = {"y", "extra_loss"}
    /\ \A k \in DOMAIN inp.kwargs : out.y.args[k] = inp.kwargs[k]
    /\ out.extra_loss
         = IF /\ "attention_type" \in DOMAIN inp.kwargs
              /\ inp.kwargs["attention_type"] = "callable_with_loss"
           THEN "additional_returned_value" ELSE "0.0"

\* ------------------------------------- multihead_self_attention_memory_efficient
\* the epsilons passed are 1e-05 .. 1e-0n for n = 4 + MaxEps, named by n
MaxEps == 2

Epsilons == 5 .. 4 + MaxEps

\* a key made of the number of heads alone
key_heads_only(num_heads, epsilon) ==
  "multihead_self_attention_memory_efficient " \o ToString(num_heads)

\* lines 6158-6159: the key, "... %s %s" % (num_heads, epsilon); str of the
\* float 10^-n is "1e-0n" for 5 <= n <= 9
function_key(num_heads, epsilon) ==
  "multihead_self_attention_memory_efficient " \o ToString(num_heads)
    \o " 1e-0" \o ToString(epsilon)

\* forward_internal of a call: a closure over the call's num_heads and epsilon
forward_internal(a, call) ==
  [kind |-> "forward_internal", num_heads |-> a.num_heads,
   epsilon |-> a.epsilon, defined_in |-> call]

\* the Defun forward_fn a call defines around its forward_internal
defun_forward_fn(a, call) ==
  [kind |-> "Defun", num_heads |-> a.num_heads, epsilon |-> a.epsilon,
   defined_in |-> call]

\* multihead_self_attention_memory_efficient(x, bias, num_heads, head_size,
\* epsilon, forget) as the call number `call` with the function cache fc: the
\* exception, the cache afterwards and the forward function applied
multihead_self_attention_memory_efficient(a, fc, call) ==
  LET key == function_key(a.num_heads, a.epsilon)
  IN IF ~a.head_size_given /\ a.io_size % a.num_heads # 0
     THEN [err |-> "AssertionError", function_cache |-> fc, out |-> None]
     ELSE IF ~a.forget
     THEN [err |-> "None", function_cache |-> fc,
           out |-> [forward_fn |-> forward_internal(a, call)]]
     ELSE IF key \in DOMAIN fc
     THEN [err |-> "None", function_cache |-> fc,
           out |-> [forward_fn |-> fc[key]]]
     ELSE [err |-> "None",
           function_cache |->
             [k \in DOMAIN fc \cup {key} |->
                IF k = key THEN defun_forward_fn(a, call) ELSE fc[k]],
           out |-> [forward_fn |-> defun_forward_fn(a, call)]]

\* the arguments of a call
MemoryEfficientArgs ==
  [io_size : 1 .. MaxDepth, num_heads : 1 .. MaxHeads,
   head_size_given : BOOLEAN, epsilon : Epsilons, forget : BOOLEAN]

\* the locals of the sparse attention pipeline
locals == <<gates_q, gates_k, q_dispatcher, k_dispatcher, dispatched_q,
            bias, weights, v_out, x>>

\* the module is imported: _function_cache = {}
InitMemoryEfficient == InitChecks

MemoryEfficientCall ==
  /\ calls < MaxCalls
  /\ \E a \in MemoryEfficientArgs :
       LET r == multihead_self_attention_memory_efficient(
                  a, function_cache, calls + 1)
       IN /\ inp' = a
          /\ err' = r.err
          /\ function_cache' = r.function_cache
          /\ out' = r.out
  /\ calls' = calls + 1
  /\ pc' = "memory_efficient"
  /\ UNCHANGED <<locals, expert_count, cache, effects>>

NextMemoryEfficient ==
  \/ MemoryEfficientCall

SpecMemoryEfficient == InitMemoryEfficient /\ [][NextMemoryEfficient]_vars

\* the entries of the cache made for the configuration of the call
EntriesFor(a) ==
  {k \in DOMAIN function_cache :
     /\ function_cache[k].num_heads = a.num_heads
     /\ function_cache[k].epsilon = a.epsilon}

\* C16: over any sequence of calls of
\* multihead_self_attention_memory_efficient no entry of _function_cache is
\* removed or replaced; a call with forget=True whose (num_heads, epsilon)
\* has no entry inserts exactly one, the function it then applies; a call
\* with forget=True whose (num_heads, epsilon) has an entry applies the
\* stored function and leaves the cache as it is; a call with forget=False
\* applies its own forward_internal and leaves the cache as it is.
C16_FunctionCacheGrowsOnly ==
  [][calls' # calls =>
       /\ \A k \in DOMAIN function_cache :
            k \in DOMAIN function_cache'
            /\ function_cache'[k] = function_cache[k]
       /\ err' = "None" /\ inp'.forget /\ EntriesFor(inp') = {}
            => /\ Cardinality(DOMAIN function_cache')
                    = Cardinality(DOMAIN function_cache) + 1
               /\ \E k \in DOMAIN function_cache' \ DOMAIN function_cache :
                    /\ function_cache'[k] = out'.forward_fn
                    /\ out'.forward_fn.num_heads = inp'.num_heads
                    /\ out'.forward_fn.epsilon = inp'.epsilon
                    /\ out'.forward_fn.defined_in = calls'
       /\ err' = "None" /\ inp'.forget /\ EntriesFor(inp') # {}
            => /\ function_cache' = function_cache
               /\ \E k \in EntriesFor(inp') :
                    out'.forward_fn = function_cache[k]
       /\ err' = "None" /\ ~inp'.forget
            => /\ function_cache' = function_cache
               /\ out'.forward_fn.kind = "forward_internal"
               /\ out'.forward_fn.defined_in = calls'
       /\ err' # "None" => function_cache' = function_cache]_vars

C16_Witness ==
  /\ pc = "memory_efficient"
  /\ calls = 3
  /\ inp.forget /\ err = "None"
  /\ Cardinality(DOMAIN function_cache) = 2
  /\ out.forward_fn.defined_in = 1

\* the call is one of the sparse dispatch pipeline
SparsePipeline == inp.fn \in {"sparse", "truncated"}

\* C17: sparse_dot_product_attention, sparse_dot_product_attention_truncated,
\* dot_product_batched_head, dot_product_single_head and expert_dot_product
\* leave the module-level state as it is: no step of theirs, returning or
\* raising, changes _expert_count or _function_cache.
C17_PipelineLeavesGlobals ==
  [][SparsePipeline
       => expert_count' = expert_count
          /\ function_cache' = function_cache]_vars

C17_Witness ==
  /\ SparsePipeline
  /\ pc = "done"
  /\ inp.fn = "truncated" /\ inp.length = 2
  /\ expert_count = 0 /\ function_cache = <<>>

\* the requests of a truncating call have been built
Requested == Truncating /\ pc # "call"

\* the query slots of bucket e that hold a query
RealQueries(e) == {s \in Range0(q_dispatcher.expert_capacity) :
                     q_dispatcher.nonpadding[e][s] = 1}

\* C18: the first memory / key position is requested by every group or
\* bucket (m_requests[0][g] = 1 in grouped_attention_multihead, the key gates
\* of position 0 in sparse_dot_product_attention_truncated); so whenever the
\* memory capacity is at least 1 every bucket holds a real key, the first
\* position among them, and every query of a bucket gives its weight to real
\* keys, of which there is at least one.
C18_FirstKeyEverywhere ==
  /\ Requested /\ LenK >= 1 =>
       \A e \in Range0(IF inp.fn = "grouped" THEN inp.num_groups
                       ELSE Pow2(inp.nb_hyperplanes)) :
         gates_k[0][e] = 1
  /\ Dispatched /\ LenK >= 1 /\ k_dispatcher.expert_capacity >= 1 =>
       \A e \in Range0(k_dispatcher.num_experts) :
         /\ RealKeys(e) # {}
         /\ 0 \in Placed(k_dispatcher, e)
  /\ Attended /\ LenK >= 1 /\ k_dispatcher.expert_capacity >= 1 =>
       \A e \in Range0(k_dispatcher.num_experts) :
         \A s \in RealQueries(e) :
           /\ \E t \in RealKeys(e) : weights[e][s][t] # 0
           /\ \A t \in PaddingKeys(e) : weights[e][s][t] = 0

C18_Witness ==
  /\ Attended
  /\ inp.fn = "grouped"
  /\ k_dispatcher.expert_capacity >= 1
  /\ \E e \in Range0(k_dispatcher.num_experts) :
       /\ Placed(k_dispatcher, e) = {0}
       /\ Assigned(inp.m_greater, LenK, e) = {}
       /\ RealQueries(e) # {}
       /\ PaddingKeys(e) # {}

\* a step that is a successful decoder self-attention call with the cache and
\* a decode_loop_step
ScatterCall ==
  /\ calls' # calls
  /\ inp'.fn = "multihead_attention"
  /\ inp'.cache_given /\ ~inp'.memory_antecedent /\ inp'.loop_step_given
  /\ err' = "None"

\* C19: in multihead_attention with a cache and decode_loop_step = t the
\* tf.add + tf.scatter_nd update is the in-place update it replaced: for
\* every sequence of calls and every prior cache content, position t of
\* cache['k'] and cache['v'] is the key and value computed in the call and
\* every other position is unchanged.
C19_ScatterIsInplaceUpdate ==
  [][ScatterCall
       => /\ cache'.k = inplace_update(cache.k, inp'.decode_loop_step,
                                       compute_qkv(inp'.token).k)
          /\ cache'.v = inplace_update(cache.v, inp'.decode_loop_step,
                                       compute_qkv(inp'.token).v)]_vars

\* what the update does: the key and value are added to position t, so the
\* two updates agree exactly when position t held zero
C19_ScatterAddsAtStep ==
  [][ScatterCall
       => LET t == inp'.decode_loop_step + 1
              new == compute_qkv(inp'.token)
          IN /\ Len(cache'.k) = Len(cache.k) /\ Len(cache'.v) = Len(cache.v)
             /\ cache'.k[t] = cache.k[t] + new.k
             /\ cache'.v[t] = cache.v[t] + new.v
             /\ \A p \in 1 .. Len(cache.k) :
                  p # t => cache'.k[p] = cache.k[p] /\ cache'.v[p] = cache.v[p]
             /\ (cache.k[t] = 0 /\ cache.v[t] = 0
                   => /\ cache'.k = inplace_update(cache.k, t - 1, new.k)
                      /\ cache'.v = inplace_update(cache.v, t - 1, new.v))]_vars

\* ------------------------------------------------------ put_item_in_decode_step
\* tensors of rank at most MaxRank between batch, heads and depth, each
\* dimension at most MaxDim and at most MaxPositions positions in all, batch
\* * heads at most MaxBatch; depth 1
MaxRank == 3

MaxDim == 2

MaxPositions == 8

MaxBatch == 2

\* seq without its last element
Front(seq) == SubSeq(seq, 1, Len(seq) - 1)

\* np.prod of a shape
RECURSIVE prod(_)
prod(shape) == IF shape = <<>> THEN 1 ELSE shape[Len(shape)] * prod(Front(shape))

\* lines 5020-5023 and 5025-5028: for q in radices[::-1]:
\* digits.insert(0, value % q); value //= q
RECURSIVE digits(_, _)
digits(value, radices) ==
  IF radices = <<>> THEN <<>>
  ELSE Append(digits(value \div radices[Len(radices)], Front(radices)),
              value % radices[Len(radices)])

\* a plain raster scan of the tensor, blocks ignored
decode_step_raster(decode_step, query_shape, tensor_shape) ==
  digits(decode_step, tensor_shape)

\* decode_step_to_index(decode_step, query_shape, tensor_shape)
decode_step_to_index(decode_step, query_shape, tensor_shape) ==
  LET blocks_per_dimension ==
        [i \in 1 .. Len(tensor_shape) |-> tensor_shape[i] \div query_shape[i]]
      items_in_block == prod(query_shape)
      block_index == digits(decode_step \div items_in_block,
                            blocks_per_dimension)
      within_block_index == digits(decode_step % items_in_block, query_shape)
  IN [i \in 1 .. Len(tensor_shape) |->
        within_block_index[i] + block_index[i] * query_shape[i]]

\* the position of an n-d index in the flattened dimension tf.reshape makes
\* of the dimensions dims (row-major)
RECURSIVE reshape_position(_, _)
reshape_position(dims, index) ==
  IF dims = <<>> THEN 0
  ELSE index[Len(index)]
       + dims[Len(dims)] * reshape_position(Front(dims), Front(index))

\* the loop of lines 5078-5082 from the dimension k down to the first
RECURSIVE flatten_loop(_, _, _, _, _)
flatten_loop(dims, index, k, flattened_index, factor) ==
  IF k = 0 THEN flattened_index
  ELSE flatten_loop(dims, index, k - 1,
                    flattened_index + index[k] * factor, factor * dims[k])

\* the same loop from the first dimension up
RECURSIVE flatten_loop_forward(_, _, _, _, _)
flatten_loop_forward(dims, index, k, flattened_index, factor) ==
  IF k > Len(dims) THEN flattened_index
  ELSE flatten_loop_forward(dims, index, k + 1,
                            flattened_index + index[k] * factor,
                            factor * dims[k])

\* a flattened index with the first dimension the fastest
flattened_index_forward(dims, index) ==
  flatten_loop_forward(dims, index, 1, 0, 1)

\* lines 5078-5082: zip(x_shape[-2:1:-1], index[::-1])
flattened_index(dims, index) == flatten_loop(dims, index, Len(dims), 0, 1)

\* the n-d indices of the dimensions dims
Indices(dims) ==
  {i \in [1 .. Len(dims) -> 0 .. MaxDim] : \A k \in 1 .. Len(dims) : i[k] < dims[k]}

\* the entries of a [batch, heads, d1, ..., dn, 1] tensor
Entries(batch, heads, dims) ==
  {<<b, h>> \o i : b \in Range0(batch), h \in Range0(heads), i \in Indices(dims)}

\* put_item_in_decode_step(x, item, decode_step, query_shape) for x of shape
\* [batch, heads] + dims + [1]: reshape and transpose to [positions, batch,
\* heads, 1], alias_inplace_update of the row flattened_index, and back
put_item_in_decode_step(tensor, item, decode_step, query_shape, batch, heads, dims) ==
  LET index == decode_step_to_index(decode_step, query_shape, dims)
      flattened_x == [p \in Range0(prod(dims)) |->
                        [b \in Range0(batch) |-> [h \in Range0(heads) |->
                           tensor[<<b, h>> \o
                                    (CHOOSE i \in Indices(dims) :
                                       reshape_position(dims, i) = p)]]]]
      updated_x == [p \in Range0(prod(dims)) |->
                      IF p = flattened_index(dims, index) THEN item
                      ELSE flattened_x[p]]
  IN [e \in Entries(batch, heads, dims) |->
        updated_x[reshape_position(dims, SubSeq(e, 3, Len(e)))][e[1]][e[2]]]

\* get_item_at_decode_step(x, decode_step, query_shape) for x of shape
\* [batch] + dims + [1]: the slice at the index, one entry per batch element
get_item_at_decode_step(tensor, decode_step, query_shape, batch, dims) ==
  LET index == decode_step_to_index(decode_step, query_shape, dims)
  IN [b \in Range0(batch) |-> tensor[<<b>> \o index]]

\* the tensor of one head: [batch] + dims + [1]
head_of(tensor, h, batch, dims) ==
  [e \in {<<b>> \o i : b \in Range0(batch), i \in Indices(dims)} |->
     tensor[<<e[1], h>> \o SubSeq(e, 2, Len(e))]]

\* a cache tensor with a different number in every entry
numbered(batch, heads, dims) ==
  [e \in Entries(batch, heads, dims) |->
     1 + reshape_position(<<batch, heads>> \o dims, e)]

\* the latest item, [batch, heads, 1, ..., 1, 1], a different number per
\* batch element and head
latest(batch, heads) ==
  [b \in Range0(batch) |-> [h \in Range0(heads) |-> 0 - (1 + b * heads + h)]]

\* the shapes of at most MaxRank dimensions and MaxPositions positions
Shapes ==
  {dims \in UNION {[1 .. n -> 1 .. MaxDim] : n \in 1 .. MaxRank} :
     prod(dims) <= MaxPositions}

\* the query shapes that fit the dimensions dims
QueryShapes(dims) ==
  {q \in [1 .. Len(dims) -> 1 .. MaxDim] : \A k \in 1 .. Len(dims) : q[k] <= dims[k]}

\* the arguments of a call: the cache tensor k of shape [batch, heads] + dims
\* + [1], a query shape that fits it and a decode step inside it
InitPutItem ==
  /\ pc = "call"
  /\ \E batch \in 1 .. MaxBatch, heads \in 1 .. MaxBatch, dims \in Shapes :
       \E query_shape \in QueryShapes(dims),
          decode_step \in Range0(prod(dims)) :
         /\ batch * heads <= MaxBatch
         /\ inp = [batch |-> batch, heads |-> heads, dims |-> dims,
                   query_shape |-> query_shape, decode_step |-> decode_step]
         /\ x = numbered(batch, heads, dims)
  /\ out = None /\ err = "None" /\ effects = <<>> /\ calls = 0
  /\ cache = None
  /\ gates_q = None /\ gates_k = None
  /\ q_dispatcher = None /\ k_dispatcher = None
  /\ dispatched_q = None /\ bias = None /\ weights = None /\ v_out = None
  /\ expert_count = 0 /\ function_cache = <<>>

\* k = put_item_in_decode_step(k, latest_k, decode_step, query_shape)
PutItem ==
  /\ pc = "call"
  /\ out' = put_item_in_decode_step(
              x, latest(inp.batch, inp.heads), inp.decode_step,
              inp.query_shape, inp.batch, inp.heads, inp.dims)
  /\ pc' = "put"
  /\ UNCHANGED <<inp, x, gates_q, gates_k, q_dispatcher, k_dispatcher,
                 dispatched_q, bias, weights, v_out, err, expert_count,
                 other>>

NextPutItem ==
  \/ PutItem

SpecPutItem == InitPutItem /\ [][NextPutItem]_vars

\* C20: put_item_in_decode_step returns a tensor of the shape of x whose
\* entry at the index decode_step_to_index gives is the item, for every batch
\* element and head, and whose other entries are those of x;
\* get_item_at_decode_step reads that same entry for the same decode_step.
C20_PutItemAtDecodeStep ==
  pc = "put" =>
    LET index == decode_step_to_index(inp.decode_step, inp.query_shape,
                                      inp.dims)
        item == latest(inp.batch, inp.heads)
    IN /\ index \in Indices(inp.dims)
       /\ DOMAIN out = DOMAIN x
       /\ \A e \in DOMAIN x :
            out[e] = IF SubSeq(e, 3, Len(e)) = index
                     THEN item[e[1]][e[2]] ELSE x[e]
       /\ \A h \in Range0(inp.heads) :
            get_item_at_decode_step(head_of(out, h, inp.batch, inp.dims),
                                    inp.decode_step, inp.query_shape,
                                    inp.batch, inp.dims)
              = [b \in Range0(inp.batch) |-> item[b][h]]

C20_Witness ==
  /\ pc = "put"
  /\ inp.dims = <<2, 2>> /\ inp.query_shape = <<1, 2>>
  /\ inp.batch = 1 /\ inp.heads = 2
  /\ inp.decode_step = 2
  /\ decode_step_to_index(2, <<1, 2>>, <<2, 2>>) = <<1, 0>>
  /\ out[<<0, 1, 1, 0>>] = latest(1, 2)[0][1]
  /\ out[<<0, 1, 0, 1>>] = x[<<0, 1, 0, 1>>]

\* --------------------------------------------------------- decode_step_to_index
\* a decoding loop over a blocked tensor of at most MaxSteps positions
MaxSteps == 16

\* select_block_for_decode_step(blocked_x, decode_step, query_shape) for
\* blocked_x of shape [batch] + blocks + [items, depth]: the begin of the
\* tf.slice in the block dimensions, and the index it is computed from
select_block_for_decode_step(blocks, decode_step, query_shape) ==
  LET x_shape == [i \in 1 .. Len(blocks) |-> blocks[i] * query_shape[i]]
      index == decode_step_to_index(decode_step, query_shape, x_shape)
      blocked_index == [i \in 1 .. Len(index) |-> index[i] \div query_shape[i]]
  IN [index |-> index, blocked_index |-> blocked_index]

\* line 4161: the shape of the unblocked tensor
unblocked_shape(a) ==
  [i \in 1 .. Len(a.blocks) |-> a.blocks[i] * a.query_shape[i]]

\* the blocked tensors: blocks per dimension and query shape of the same
\* rank, at most MaxSteps positions in all
BlockedShapes ==
  {a \in UNION {[blocks : [1 .. n -> 1 .. MaxDim],
                 query_shape : [1 .. n -> 1 .. MaxDim]] : n \in 1 .. MaxRank} :
     prod(a.blocks) * prod(a.query_shape) <= MaxSteps}

\* before the first decode step
InitDecodeIndex ==
  /\ pc = "call"
  /\ \E a \in BlockedShapes :
       inp = [blocks |-> a.blocks, query_shape |-> a.query_shape,
              decode_step |-> 0]
  /\ out = <<>> /\ err = "None" /\ effects = <<>> /\ calls = 0
  /\ x = None /\ cache = None
  /\ gates_q = None /\ gates_k = None
  /\ q_dispatcher = None /\ k_dispatcher = None
  /\ dispatched_q = None /\ bias = None /\ weights = None /\ v_out = None
  /\ expert_count = 0 /\ function_cache = <<>>

\* one decode step: select_block_for_decode_step(blocked_x, decode_step,
\* query_shape); the loop then moves to the next step
DecodeIndexStep ==
  /\ inp.decode_step < prod(unblocked_shape(inp))
  /\ out' = Append(out, select_block_for_decode_step(
                          inp.blocks, inp.decode_step, inp.query_shape))
  /\ inp' = [inp EXCEPT !.decode_step = @ + 1]
  /\ pc' = "decoded"
  /\ UNCHANGED <<x, gates_q, gates_k, q_dispatcher, k_dispatcher,
                 dispatched_q, bias, weights, v_out, err, expert_count,
                 other>>

NextDecodeIndex ==
  \/ DecodeIndexStep

SpecDecodeIndex == InitDecodeIndex /\ [][NextDecodeIndex]_vars

\* a comes before b in row-major order
row_major_before(a, b) ==
  \E k \in 1 .. Len(a) :
    a[k] < b[k] /\ \A j \in 1 .. k - 1 : a[j] = b[j]

\* a comes before b in blocked raster scan order for blocks of query_shape
blocked_raster_before(a, b, query_shape) ==
  LET block(i) == [k \in 1 .. Len(i) |-> i[k] \div query_shape[k]]
      within(i) == [k \in 1 .. Len(i) |-> i[k] % query_shape[k]]
  IN \/ row_major_before(block(a), block(b))
     \/ block(a) = block(b) /\ row_major_before(within(a), within(b))

\* the n-d index grid of a tensor shape
Grid(tensor_shape) ==
  {i \in [1 .. Len(tensor_shape) -> 0 .. MaxSteps] :
     \A k \in 1 .. Len(tensor_shape) : i[k] < tensor_shape[k]}

\* C21: for a tensor whose every dimension is a positive multiple of the
\* query dimension, the indices decode_step_to_index returns for the decode
\* steps 0, 1, 2, ... are within the bounds of the tensor, differ for
\* different steps, follow blocked raster scan order (blocks in row-major
\* order, positions within a block in row-major order) and, once every step
\* 0 .. prod(tensor_shape)-1 was taken, are the whole index grid; the block
\* select_block_for_decode_step selects is the block of the index.
C21_BlockedRasterScan ==
  pc = "decoded" =>
    LET tensor_shape == unblocked_shape(inp)
    IN /\ Len(out) = inp.decode_step
       /\ \A s \in 1 .. Len(out) :
            /\ DOMAIN out[s].index = 1 .. Len(tensor_shape)
            /\ \A k \in 1 .. Len(tensor_shape) :
                 /\ 0 <= out[s].index[k]
                 /\ out[s].index[k] < tensor_shape[k]
                 /\ out[s].blocked_index[k] < inp.blocks[k]
                 /\ out[s].blocked_index[k] * inp.query_shape[k]
                      <= out[s].index[k]
                 /\ out[s].index[k]
                      < (out[s].blocked_index[k] + 1) * inp.query_shape[k]
       /\ \A s1, s2 \in 1 .. Len(out) :
            s1 < s2 =>
              /\ out[s1].index # out[s2].index
              /\ blocked_raster_before(out[s1].index, out[s2].index,
                                       inp.query_shape)
       /\ Len(out) = prod(tensor_shape) =>
            {out[s].index : s \in 1 .. Len(out)} = Grid(tensor_shape)

C21_Witness ==
  /\ pc = "decoded"
  /\ inp.blocks = <<2, 2>> /\ inp.query_shape = <<2, 2>>
  /\ Len(out) = 16
  /\ out[3].index = <<1, 0>>
  /\ out[5].index = <<0, 2>> /\ out[5].blocked_index = <<0, 1>>
  /\ out[9].index = <<2, 0>>
  /\ out[16].index = <<3, 3>>

\* -------------------------------------- the mask of multihead_self_attention_reduced
\* sequences of at most MaxLength positions
MaxLength == 5

\* the arguments that pass the checks: a factor from 1 to the length,
\* multihead_params set, no memory_antecedent
MaskedArgs ==
  {[fn |-> "multihead_self_attention_reduced", length |-> l,
    factor |-> Some(f), multihead_params |-> "set",
    memory_antecedent |-> FALSE, nonlinearity |-> nl,
    reduction_type |-> rt, add_mask |-> am]
     : l \in 1 .. MaxLength, f \in 1 .. MaxLength,
       nl \in {"none", "silu"}, rt \in {"conv", "attention"},
       am \in BOOLEAN}

InitReduced == InitChecks

\* a call of multihead_self_attention_reduced that passes the checks
MaskedReducedCall ==
  /\ calls < MaxCalls
  /\ \E a \in MaskedArgs :
       /\ a.factor[1] <= a.length
       /\ LET r == multihead_self_attention_reduced(a, cache)
          IN inp' = a /\ err' = r.err /\ effects' = r.effects /\ out' = r.out
  /\ calls' = calls + 1
  /\ pc' = "masked"
  /\ UNCHANGED <<pipeline, cache>>

NextReduced ==
  \/ MaskedReducedCall

SpecReduced == InitReduced /\ [][NextReduced]_vars

\* query position i may attend memory slot j: the bias is 0
may_attend(i, j) == out.bias[i][j] = 0

\* the mask of a call with add_mask=True: every entry is 0 or -1e9, slot 0
\* is the first input element, slot j >= 1 holds input positions of
\* (j-1)*factor .. j*factor-1 (all of them after a "conv" reduction), and
\* query i may attend slot j exactly when j*factor <= i
MaskOfReduced ==
  LET factor == inp.factor[1]
  IN /\ DOMAIN out.bias = Range0(inp.length)
     /\ out.memory_x[0] = {0}
     /\ \A j \in DOMAIN out.memory_x :
          j >= 1 =>
            /\ out.memory_x[j] # {}
            /\ out.memory_x[j] \subseteq ((j - 1) * factor) .. (j * factor - 1)
            /\ inp.reduction_type = "conv" =>
                 out.memory_x[j] = ((j - 1) * factor) .. (j * factor - 1)
     /\ \A i \in Range0(inp.length) :
          /\ DOMAIN out.bias[i] = DOMAIN out.memory_x
          /\ may_attend(i, 0)
          /\ \A j \in DOMAIN out.memory_x :
               /\ out.bias[i][j] \in {0, 0 - Big}
               /\ may_attend(i, j) <=> j * factor <= i

\* C22 (amended): in multihead_self_attention_reduced with add_mask=True,
\* query position i may attend memory slot j exactly when j*factor <= i;
\* slot 0 (the first input element) is attendable by every query, query 0
\* included, whose own position it is; a compressed slot j >= 1 is
\* attendable only by queries at positions strictly after every position it
\* summarises; no query attends a slot containing a future position.
C22_MaskOfReducedMemory ==
  pc = "masked" /\ inp.add_mask /\ err = "None" =>
    /\ MaskOfReduced
    /\ \A i \in Range0(inp.length), j \in DOMAIN out.memory_x :
         may_attend(i, j) =>
           /\ \A p \in out.memory_x[j] : p <= i
           /\ j >= 1 => \A p \in out.memory_x[j] : p < i

C22_Witness ==
  /\ pc = "masked" /\ inp.add_mask /\ err = "None"
  /\ inp.length = 5 /\ inp.factor = Some(2) /\ inp.reduction_type = "conv"
  /\ out.memory_length = 3
  /\ out.memory_x[2] = {2, 3}
  /\ may_attend(0, 0) /\ ~may_attend(1, 1) /\ may_attend(2, 1)
  /\ ~may_attend(3, 2) /\ may_attend(4, 2)

\* C22 as stated: the same mask, and no query attends a slot containing its
\* own or a future position, slot 0 included.
C22_NoSlotWithOwnPosition ==
  pc = "masked" /\ inp.add_mask /\ err = "None" =>
    /\ MaskOfReduced
    /\ \A i \in Range0(inp.length), j \in DOMAIN out.memory_x :
         may_attend(i, j) => \A p \in out.memory_x[j] : p < i

\* ------------------------------------ attention_bias_coordinates / attention_bias_future
\* coordinate tensors of at most MaxCoord positions with values 0 .. MaxCoord
MaxCoord == 2

\* attention_bias_coordinates = functools.partial(attention_bias_batch,
\* condition_fn=lambda bias: tf.minimum(1.0, tf.abs(bias)))
attention_bias_coordinates(batch_coordinates_q, batch_coordinates_k) ==
  attention_bias_batch(batch_coordinates_q, batch_coordinates_k, "coordinates")

\* attention_bias_future = functools.partial(attention_bias_batch,
\* condition_fn=lambda bias: tf.maximum(0.0, tf.minimum(1.0, bias)))
attention_bias_future(batch_coordinates_q, batch_coordinates_k) ==
  attention_bias_batch(batch_coordinates_q, batch_coordinates_k, "future")

\* the [length, 1] integer coordinate tensors
Coordinates ==
  {column(Cardinality(DOMAIN f), f) :
     f \in UNION {[Range0(m) -> 0 .. MaxCoord] : m \in 1 .. MaxCoord}}

\* the arguments of a call: q, and k or None (self-attention)
BiasArgs ==
  [q : Coordinates, k : Coordinates \cup {NoneTensor}]

\* the arguments of a call, before it
InitBias ==
  /\ pc = "call"
  /\ inp \in BiasArgs
  /\ out = None /\ err = "None" /\ effects = <<>> /\ calls = 0
  /\ cache = None
  /\ gates_q = None /\ gates_k = None
  /\ q_dispatcher = None /\ k_dispatcher = None
  /\ dispatched_q = None /\ bias = None /\ weights = None /\ v_out = None
  /\ x = None /\ expert_count = 0 /\ function_cache = <<>>

\* attention_bias_coordinates(q, k)
CoordinatesCall ==
  /\ pc = "call"
  /\ LET r == attention_bias_coordinates(inp.q, inp.k)
     IN err' = r.err /\ out' = r.val
  /\ pc' = "coordinates"
  /\ UNCHANGED <<inp, pipeline, cache, effects, calls>>

\* attention_bias_future(q, k)
FutureCall ==
  /\ pc = "call"
  /\ LET r == attention_bias_future(inp.q, inp.k)
     IN err' = r.err /\ out' = r.val
  /\ pc' = "future"
  /\ UNCHANGED <<inp, pipeline, cache, effects, calls>>

NextBias ==
  \/ CoordinatesCall
  \/ FutureCall

SpecBias == InitBias /\ [][NextBias]_vars

\* the coordinates of the keys of a call
keys_of(a) == IF a.k.is_none THEN a.q ELSE a.k

\* C23: for integer coordinates, attention_bias_coordinates(q, k) returns a
\* [length_q, length_k] matrix whose entry (i, j) is 0 when q[i] = k[j] and
\* -1e9 otherwise, and attention_bias_future(q, k) returns a matrix whose
\* entry (i, j) is 0 when k[j] <= q[i] and -1e9 when k[j] > q[i]; every
\* entry is either 0 or -1e9.
C23_BiasMatrices ==
  pc \in {"coordinates", "future"} =>
    LET q == inp.q.val
        k == keys_of(inp).val
    IN /\ err = "None"
       /\ DOMAIN out = DOMAIN q
       /\ \A i \in DOMAIN q :
            /\ DOMAIN out[i] = DOMAIN k
            /\ \A j \in DOMAIN k :
                 /\ out[i][j] \in {0, 0 - Big}
                 /\ pc = "coordinates" => (out[i][j] = 0 <=> q[i] = k[j])
                 /\ pc = "future" => (out[i][j] = 0 <=> k[j] <= q[i])

\* what the code does: every call raises in the to_float defined inside
\* attention_bias_batch and returns no matrix, while the two condition
\* functions, applied to k[j] - q[i] and multiplied by -1e9, give the entries
\* described
C23_BiasCallsRaise ==
  pc \in {"coordinates", "future"} =>
    /\ err = "ValueError" /\ out = <<>>
    /\ \A i \in DOMAIN inp.q.val, j \in DOMAIN keys_of(inp).val :
         LET d == keys_of(inp).val[j] - inp.q.val[i]
         IN /\ coordinates_condition_fn(d) * (0 - Big)
                 = IF d = 0 THEN 0 ELSE 0 - Big
            /\ future_condition_fn(d) * (0 - Big)
                 = IF d <= 0 THEN 0 ELSE 0 - Big

\* ---------------------------------------------------- masked_local_attention_1d
\* sequences of at most MaxSeq positions and block lengths of at most MaxSeq
MaxSeq == 8

\* common_layers.ones_matrix_band_part(rows, cols, num_lower, num_upper):
\* entry (i, j) is 1 when i - j <= num_lower and j - i <= num_upper, a
\* negative bound being no bound
ones_matrix_band_part(rows, cols, num_lower, num_upper) ==
  [i \in Range0(rows) |-> [j \in Range0(cols) |->
     IF /\ (num_lower < 0 \/ i - j <= num_lower)
        /\ (num_upper < 0 \/ j - i <= num_upper)
     THEN 1 ELSE 0]]

\* attention_bias_local(length, max_backward, max_forward), lines 974-980
attention_bias_local(length, max_backward, max_forward) ==
  LET band == ones_matrix_band_part(length, length, max_backward, max_forward)
  IN [i \in Range0(length) |-> [j \in Range0(length) |->
        (0 - Big) * (1 - band[i][j])]]

\* attention_bias_lower_triangle(length), line 995
attention_bias_lower_triangle(length) == attention_bias_local(length, -1, 0)

\* lines 2882-2887: if length < 2 * block_length, one block of the length
one_block_if_short(length, block_length) ==
  IF length < block_length * 2 THEN length ELSE block_length

\* lines 2889-2896: tf.pad to a multiple of block_length; a position of the
\* padded tensor is given as its position and whether it is padding
pad_to_blocks(length, block_length) ==
  LET padding_size == (block_length - (length % block_length)) % block_length
  IN [p \in Range0(length + padding_size) |->
        [pos |-> p, pad |-> p >= length]]

\* tf.reshape to [num_blocks, block_length], lines 2918-2920
blocked(t, num_blocks, block_length) ==
  [n \in Range0(num_blocks) |-> [l \in Range0(block_length) |->
     t[n * block_length + l]]]

\* a local block made of the current block twice
make_local_block_current(t, num_blocks, block_length) ==
  [n \in Range0(num_blocks - 1) |-> [l \in Range0(block_length * 2) |->
     t[n + 1][l % block_length]]]

\* _make_local_block(x, depth, batch, heads, num_blocks, block_length):
\* prev_block = blocks 0 .. num_blocks-2, cur_block = blocks 1 .. , joined
\* along the block_length axis
make_local_block(t, num_blocks, block_length) ==
  LET prev_block == [n \in Range0(num_blocks - 1) |-> t[n]]
      cur_block == [n \in Range0(num_blocks - 1) |-> t[n + 1]]
  IN [n \in Range0(num_blocks - 1) |-> [l \in Range0(block_length * 2) |->
        IF l < block_length THEN prev_block[n][l]
        ELSE cur_block[n][l - block_length]]]

\* dot_product_attention(q, k, v, bias) for one block: each query with the
\* keys its softmax weight is not driven to zero for (bias 0)
attended(queries, keys, block_bias) ==
  [i \in DOMAIN queries |->
     [q |-> queries[i],
      keys |-> {keys[j] : j \in {l \in DOMAIN keys : block_bias[i][l] = 0}}]]

\* masked_local_attention_1d(q, k, v, block_length) for q, k, v of the given
\* length: the output rows, each with the query it belongs to and the keys
\* that query attends
masked_local_attention_1d(original_length, block_length_arg) ==
  LET block_length == one_block_if_short(original_length, block_length_arg)
      padded == pad_to_blocks(original_length, block_length)
      length == Cardinality(DOMAIN padded)
      num_blocks == length \div block_length
      first == [l \in Range0(block_length) |-> padded[l]]
      first_output == attended(first, first,
                               attention_bias_lower_triangle(block_length))
      qb == blocked(padded, num_blocks, block_length)
      local_k == make_local_block(qb, num_blocks, block_length)
      tail_q == [n \in Range0(num_blocks - 1) |-> qb[n + 1]]
      local_length == block_length * 2
      good_part == ones_matrix_band_part(block_length, local_length, -1,
                                         block_length)
      tail_bias == [i \in Range0(block_length) |->
                      [l \in Range0(local_length) |->
                         (1 - good_part[i][l]) * (0 - Big)]]
      tail_output == [n \in Range0(num_blocks - 1) |->
                        attended(tail_q[n], local_k[n], tail_bias)]
      output == [r \in Range0(length) |->
                   IF r < block_length THEN first_output[r]
                   ELSE tail_output[(r \div block_length) - 1][r % block_length]]
  IN [block_length |-> block_length,
      padded |-> padded,
      output |-> [r \in Range0(original_length) |-> output[r]]]

\* the arguments of a call, before it
InitLocal ==
  /\ pc = "call"
  /\ inp \in [length : 1 .. MaxSeq, block_length : 1 .. MaxSeq]
  /\ out = None /\ err = "None" /\ effects = <<>> /\ calls = 0
  /\ cache = None
  /\ gates_q = None /\ gates_k = None
  /\ q_dispatcher = None /\ k_dispatcher = None
  /\ dispatched_q = None /\ bias = None /\ weights = None /\ v_out = None
  /\ x = None /\ expert_count = 0 /\ function_cache = <<>>

\* masked_local_attention_1d(q, k, v, block_length)
LocalAttentionCall ==
  /\ pc = "call"
  /\ out' = masked_local_attention_1d(inp.length, inp.block_length)
  /\ pc' = "local"
  /\ UNCHANGED <<inp, err, pipeline, cache, effects, calls>>

NextLocal ==
  \/ LocalAttentionCall

SpecLocal == InitLocal /\ [][NextLocal]_vars

\* C24: in masked_local_attention_1d, for every length and block_length, the
\* query at position p attends memory position m only if m <= p and m lies
\* in p's block or the block immediately before it (and it does attend every
\* such m), the block size being block_length, or the whole sequence when
\* length < 2*block_length; the padding added to reach a multiple of the
\* block length is at positions greater than every real query and is never
\* attended by one, and the output has the original length, row p being the
\* result of the query at position p.
C24_LocalAttentionWindow ==
  pc = "local" =>
    LET block == IF inp.length < 2 * inp.block_length
                 THEN inp.length ELSE inp.block_length
    IN /\ out.block_length = block
       /\ Cardinality(DOMAIN out.padded) % block = 0
       /\ Cardinality(DOMAIN out.padded) - inp.length \in Range0(block)
       /\ \A p \in DOMAIN out.padded :
            out.padded[p].pad <=> p >= inp.length
       /\ DOMAIN out.output = Range0(inp.length)
       /\ \A p \in Range0(inp.length) :
            /\ out.output[p].q = [pos |-> p, pad |-> FALSE]
            /\ \A key \in out.output[p].keys :
                 /\ ~key.pad
                 /\ key.pos <= p
                 /\ \/ key.pos \div block = p \div block
                    \/ key.pos \div block = (p \div block) - 1
            /\ \A m \in Range0(inp.length) :
                 m <= p /\ (p \div block) - (m \div block) \in {0, 1}
                   => [pos |-> m, pad |-> FALSE] \in out.output[p].keys

C24_Witness ==
  /\ pc = "local"
  /\ inp.length = 7 /\ inp.block_length = 3
  /\ Cardinality(DOMAIN out.padded) = 9
  /\ out.padded[7].pad
  /\ {key.pos : key \in out.output[6].keys} = {3, 4, 5, 6}
  /\ {key.pos : key \in out.output[4].keys} = {0, 1, 2, 3, 4}
  /\ {key.pos : key \in out.output[1].keys} = {0, 1}

====
